---- MODULE Spec2Model ----
(***************************************************************************)
(* The multi-webhook server of main.go (the variant of lines 516-1384):    *)
(* the TPSCalculator (a counter and two timestamps behind a sync.RWMutex), *)
(* the WebhookServer registry (id -> *Webhook) and the HTTP handlers that  *)
(* use them.  Every handler runs on its own goroutine; a goroutine is a    *)
(* thread of the model with a program counter and a frame of locals.       *)
(*                                                                         *)
(* Strings that the code takes apart (paths) are sequences of tokens, so   *)
(* that strings.HasPrefix and concatenation are computed, not assumed.     *)
(* Times are clock ticks; time.Time{} is ZeroTime and the clock starts     *)
(* after it.                                                               *)
(***************************************************************************)
EXTENDS Integers, Sequences, FiniteSets, TLC

(* ------------------------------ bounds -------------------------------- *)
\* goroutines serving requests at the same time
NumThreads == 2
\* the clock runs from 1 to MaxTime
MaxTime == 2
\* handler invocations in one behaviour
MaxOps == 3
\* clock ticks in one second (RFC3339 keeps whole seconds only)
TicksPerSecond == 2
\* handler invocations in one behaviour of the concurrent server
MaxRegOps == 2

Threads == 1..NumThreads

(* ------------------------------ values -------------------------------- *)
\* time.Time{}: the zero time, earlier than every reading of the clock
ZeroTime == 0

\* a nil *Webhook
NilWebhook == 0

\* a float64 / int of the metrics map, kept exact as <<numerator, denominator>>
Rat(n) == <<n, 1>>

\* time.Duration.Seconds(): ticks -> seconds
Seconds(d) == <<d, TicksPerSecond>>

\* float64(n) / r for a rational r with r[1] # 0
RatDiv(n, r) == <<n * r[2], r[1]>>

\* r > 0 for a rational with a positive denominator
RatPositive(r) == r[1] > 0

\* nil in the metrics map
Absent == <<>>

\* time.Time.Format(time.RFC3339): the time cut to whole seconds
FormatRFC3339(tm) == <<tm \div TicksPerSecond>>

\* a map[string]string is the sequence of its <<key, value>> pairs; the nil
\* map is not the empty map that make() returns
NilHeaders == << <<>> >>

\* for key, value := range new { old[key] = value }, on a map that is not nil
MergeHeaders(old, new) ==
  LET made == IF old = NilHeaders THEN <<>> ELSE old
      keys == {new[i][1] : i \in DOMAIN new}
      NotIn(e) == e[1] \notin keys
  IN SelectSeq(made, NotIn) \o new

\* a nil pointer and a pointer to v, for the *int, *string and *bool fields
\* of the PATCH request
NilPtr == <<>>
Ptr(v) == <<v>>

\* the ids deleteWebhook and the path updates refuse
ProtectedIDs == {"default", "fast", "slow"}

\* &TPSCalculator{}
NewTPSCalculator ==
  [requestCount |-> 0, startTime |-> ZeroTime, lastTime |-> ZeroTime,
   isActive |-> FALSE]

\* the zero sync.RWMutex: no writer (0), no readers
NewRWMutex == [w |-> 0, r |-> {}]

\* the map GetMetrics returns when the calculator is not active
InactiveMetrics ==
  [total_requests |-> 0, duration_seconds |-> Rat(0), tps |-> Rat(0),
   start_time |-> Absent, end_time |-> Absent]

\* the locals of a goroutine that serves nothing (body: the JSON object of
\* the request; before: history, the webhooks as they were when the handler
\* took ws.mu.Lock; todo: the webhooks /api/summary has still to visit;
\* response: what the handler has put into the response so far; versions:
\* history, the webhook's Config at each moment handleWebhookRequest read it)
IdleFrame ==
  [handler |-> "none", id |-> "", webhook |-> NilWebhook, now |-> ZeroTime,
   count |-> 0, duration |-> Rat(0), tps |-> Rat(0),
   metrics |-> InactiveMetrics, status |-> 0, body |-> <<>>, before |-> <<>>,
   todo |-> {}, response |-> <<>>, versions |-> <<>>]

(* ------------------------------ state --------------------------------- *)
VARIABLES
  now,        \* the clock read by time.Now()
  calcs,      \* the TPSCalculator objects: requestCount, startTime, lastTime, isActive
  mu,         \* TPSCalculator.mu of each calculator: writer and readers
  heap,       \* the Webhook objects ever allocated
  webhooks,   \* WebhookServer.webhooks: id -> index into heap
  wsmu,       \* WebhookServer.mu: writer and readers
  router,     \* gin routes registered by registerWebhookRoute: path -> webhook id
  pc,         \* where each goroutine is
  frame,      \* the locals of each goroutine
  nops,       \* handler invocations so far
  begun,      \* history: RecordRequest calls entered since the last Reset returned
  completed,  \* history: RecordRequest calls returned since the last Reset returned
  committed,  \* history: each calculator's fields when its last writer unlocked
  snapLo,     \* history: completed[c] when the goroutine's GetMetrics call began
  recorded,   \* history: RecordRequest calls returned since the calculator was made
  served,     \* history: per webhook, the RecordRequest calls made through it
              \* that returned since a Reset made through it last returned
  posted,     \* history: the WebhookConfig the last POST /api/config stored
  deleted     \* history: the webhooks deleteWebhook has removed from the map

calcVars == <<calcs, mu>>
regVars == <<heap, webhooks, wsmu, router>>
histVars == <<begun, completed, committed, snapLo, recorded, served, posted, deleted>>
vars == <<now, calcs, mu, heap, webhooks, wsmu, router, pc, frame, nops,
          begun, completed, committed, snapLo, recorded, served, posted, deleted>>

\* the calculator the goroutine's webhook owns
CalcOf(t) == heap[frame[t].webhook].Calculator

\* goroutines inside RecordRequest on calculator c
Recording(c) ==
  {t \in Threads :
     /\ pc[t] \in {"rec_lock", "rec_start", "rec_active", "rec_load",
                   "rec_store", "rec_last"}
     /\ CalcOf(t) = c}

(* ------------------------------ startup ------------------------------- *)
DefaultConfig ==
  [StatusCode |-> 200, ContentType |-> "application/json",
   ResponseBody |-> "received", Timeout |-> 0, Headers |-> <<>>,
   EnableLogging |-> TRUE]

\* the three webhooks loadDefaultWebhooks builds, with calculators c1, c2, c3
DefaultWebhooks(c1, c2, c3) ==
  <<[ID |-> "default", Name |-> "Default Webhook", Path |-> <<"/", "webhook">>,
     Config |-> DefaultConfig,
     Calculator |-> c1, CreatedAt |-> 1, LastRequest |-> ZeroTime],
    [ID |-> "fast", Name |-> "Fast Webhook",
     Path |-> <<"/", "webhook", "/", "fast">>,
     Config |-> [DefaultConfig EXCEPT !.ResponseBody = "fast",
                                      !.EnableLogging = FALSE],
     Calculator |-> c2, CreatedAt |-> 1, LastRequest |-> ZeroTime],
    [ID |-> "slow", Name |-> "Slow Webhook",
     Path |-> <<"/", "webhook", "/", "slow">>,
     Config |-> [DefaultConfig EXCEPT !.ResponseBody = "slow",
                                      !.Timeout = 2000],
     Calculator |-> c3, CreatedAt |-> 1, LastRequest |-> ZeroTime]>>

\* loadDefaultWebhooks with one NewTPSCalculator() shared by the three
loadDefaultWebhooks_SharedCalculator == DefaultWebhooks(1, 1, 1)

\* loadDefaultWebhooks with logging on for "fast" too
loadDefaultWebhooks_FastLogging ==
  [DefaultWebhooks(1, 2, 3) EXCEPT ![2].Config.EnableLogging = TRUE]

\* loadDefaultWebhooks: each webhook gets its own NewTPSCalculator()
loadDefaultWebhooks == DefaultWebhooks(1, 2, 3)

\* NewWebhookServer when config.yaml cannot be read: the built-in webhooks,
\* no custom route registered (only /w/:id, which main adds, reaches them)
Init ==
  /\ now = 1
  /\ heap = loadDefaultWebhooks
  /\ calcs = [c \in 1..3 |-> NewTPSCalculator]
  /\ mu = [c \in 1..3 |-> NewRWMutex]
  /\ webhooks = [id \in {"default", "fast", "slow"} |->
                   CHOOSE o \in 1..3 : loadDefaultWebhooks[o].ID = id]
  /\ wsmu = NewRWMutex
  /\ router = <<>>
  /\ pc = [t \in Threads |-> "idle"]
  /\ frame = [t \in Threads |-> IdleFrame]
  /\ nops = 0
  /\ begun = [c \in 1..3 |-> 0]
  /\ completed = [c \in 1..3 |-> 0]
  /\ committed = [c \in 1..3 |-> NewTPSCalculator]
  /\ snapLo = [t \in Threads |-> 0]
  /\ recorded = [c \in 1..3 |-> 0]
  /\ served = [o \in 1..3 |-> 0]
  /\ posted = <<>>
  /\ deleted = {}

(* ------------------------------ the clock ----------------------------- *)
\* time passes between two readings of time.Now()
Tick ==
  /\ now < MaxTime
  /\ now' = now + 1
  /\ UNCHANGED <<calcVars, regVars, pc, frame, nops, histVars>>

(* --------------------------- sync.RWMutex ------------------------------ *)
\* Lock() returns: no writer and no reader holds the mutex
CanLock(m) == m.w = 0 /\ m.r = {}

\* RLock() returns: no writer holds the mutex
CanRLock(m) == m.w = 0

(* --------------------------- getWebhook -------------------------------- *)
\* the handlers that look the webhook up and answer 404 when it is missing
CheckedHandlers == {"webhook", "metrics", "reset"}

\* GET, PUT and PATCH /api/webhooks/:id, which answer 404 in the same way
WebhookHandlers == {"show", "put", "patch"}

\* the legacy handlers: webhook, _ := getWebhook("default")
LegacyHandlers == {"api_request", "api_metrics", "api_reset"}

\* GET /api/config, which drops `exists` in the same way
ConfigHandlers == {"api_config_get"}

\* the TPSCalculator method a handler calls first on the webhook it found
FirstCall(h) ==
  CASE h \in {"webhook", "api_request"} -> "rec_lock"
    [] h \in {"metrics", "api_metrics"} -> "met_lock"
    [] h \in {"reset", "api_reset"} -> "rst_lock"
    [] h \in {"put", "patch"} -> "upd_lock"
    [] h = "api_config" -> "cfg_lock"
    [] h \in ConfigHandlers -> "cfg_read"
    [] h = "show" -> "respond"

\* where a handler goes on when GetMetrics has returned
AfterRead(h) == IF h = "summary" THEN "sum_entry" ELSE "respond"

\* a request arrives and gin hands it to handler h with the id it names;
\* no more than `budget` requests arrive in one behaviour
Start(t, h, id, budget) ==
  /\ pc[t] = "idle"
  /\ nops < budget
  /\ nops' = nops + 1
  /\ pc' = [pc EXCEPT ![t] = IF h \in {"create", "delete"} THEN h ELSE "get"]
  /\ frame' = [frame EXCEPT ![t] = [IdleFrame EXCEPT !.handler = h, !.id = id]]
  /\ UNCHANGED <<now, calcVars, regVars, histVars>>

\* ws.getWebhook(id): ws.mu.RLock(); webhook, exists := ws.webhooks[id]
getWebhook(t) ==
  /\ pc[t] = "get"
  /\ CanRLock(wsmu)
  /\ wsmu' = [wsmu EXCEPT !.r = @ \cup {t}]
  /\ frame' = [frame EXCEPT ![t].webhook =
                 IF frame[t].id \in DOMAIN webhooks
                 THEN webhooks[frame[t].id] ELSE NilWebhook]
  /\ pc' = [pc EXCEPT ![t] = "get_ret"]
  /\ UNCHANGED <<now, calcVars, heap, webhooks, router, nops, histVars>>

\* getWebhook that returns with ws.mu still read-locked
getWebhookReturn_NoRUnlock(t) ==
  /\ pc[t] = "get_ret"
  /\ IF frame[t].webhook # NilWebhook
     THEN /\ pc' = [pc EXCEPT ![t] = FirstCall(frame[t].handler)]
          /\ begun' = IF FirstCall(frame[t].handler) = "rec_lock"
                      THEN [begun EXCEPT ![CalcOf(t)] = @ + 1] ELSE begun
          /\ frame' = [frame EXCEPT ![t].status =
                         IF FirstCall(frame[t].handler) = "respond"
                         THEN 200 ELSE @]
     ELSE /\ frame' = [frame EXCEPT ![t].status = 404]
          /\ pc' = [pc EXCEPT ![t] = "respond"]
          /\ UNCHANGED begun
  /\ UNCHANGED <<now, calcVars, regVars, nops, completed, committed, recorded,
                 served, snapLo, posted, deleted>>

\* a missing webhook answered 200 by every handler
getWebhookReturn_MissingOK(t) ==
  /\ pc[t] = "get_ret"
  /\ wsmu' = [wsmu EXCEPT !.r = @ \ {t}]
  /\ IF frame[t].webhook # NilWebhook
     THEN /\ pc' = [pc EXCEPT ![t] = FirstCall(frame[t].handler)]
          /\ begun' = IF FirstCall(frame[t].handler) = "rec_lock"
                      THEN [begun EXCEPT ![CalcOf(t)] = @ + 1] ELSE begun
          /\ snapLo' = IF FirstCall(frame[t].handler) = "met_lock"
                       THEN [snapLo EXCEPT ![t] = completed[CalcOf(t)]]
                       ELSE snapLo
          /\ frame' = [frame EXCEPT ![t].status =
                         IF FirstCall(frame[t].handler) = "respond"
                         THEN 200 ELSE @]
     ELSE /\ frame' = [frame EXCEPT ![t].status = 200]
          /\ pc' = [pc EXCEPT ![t] = "respond"]
          /\ UNCHANGED <<begun, snapLo>>
  /\ UNCHANGED <<now, calcVars, heap, webhooks, router, nops, completed,
                 committed, recorded, served, posted, deleted>>

\* the deferred ws.mu.RUnlock() of getWebhook, and the handler's test of
\* `exists`.  A missing webhook is 404 for the checked handlers; the legacy
\* handlers drop `exists` and dereference nil, which the recovery middleware
\* turns into 500.  POST /api/config takes webhookServer.mu before it
\* dereferences the webhook.
getWebhookReturn(t) ==
  /\ pc[t] = "get_ret"
  /\ wsmu' = [wsmu EXCEPT !.r = @ \ {t}]
  /\ LET h == frame[t].handler
     IN IF frame[t].webhook # NilWebhook
        THEN LET c == CalcOf(t)
                 call == FirstCall(h)
             IN /\ pc' = [pc EXCEPT ![t] = call]
                /\ begun' = IF call = "rec_lock"
                            THEN [begun EXCEPT ![c] = @ + 1] ELSE begun
                /\ snapLo' = IF call = "met_lock"
                             THEN [snapLo EXCEPT ![t] = completed[c]]
                             ELSE snapLo
                /\ frame' = [frame EXCEPT ![t].status =
                               IF call = "respond" THEN 200 ELSE @]
        ELSE /\ frame' = [frame EXCEPT ![t].status =
                            IF h \in CheckedHandlers \cup WebhookHandlers
                            THEN 404
                            ELSE IF h = "api_config" THEN @ ELSE 500]
             /\ pc' = [pc EXCEPT ![t] = IF h = "api_config"
                                        THEN "cfg_lock" ELSE "respond"]
             /\ UNCHANGED <<begun, snapLo>>
  /\ UNCHANGED <<now, calcVars, heap, webhooks, router, nops, completed,
                 committed, recorded, served, posted, deleted>>

\* c.JSON / c.String: the response is written and the goroutine is free
Respond(t) ==
  /\ pc[t] = "respond"
  /\ pc' = [pc EXCEPT ![t] = "idle"]
  /\ frame' = [frame EXCEPT ![t] = IdleFrame]
  /\ UNCHANGED <<now, calcVars, regVars, nops, histVars>>

(* --------------------------- RecordRequest ----------------------------- *)
\* where a handler goes on when RecordRequest or Reset has returned
AfterWrite(h) == IF h = "webhook" THEN "hw_now" ELSE "respond"

\* RecordRequest without t.mu.Lock(): the writers are not serialised
RecordRequestLock_NoLock(t) ==
  /\ pc[t] = "rec_lock"
  /\ frame' = [frame EXCEPT ![t].now = now]
  /\ pc' = [pc EXCEPT ![t] = "rec_start"]
  /\ UNCHANGED <<now, calcVars, regVars, nops, histVars>>

\* RecordRequest with t.mu.RLock() in place of t.mu.Lock()
RecordRequestLock_RLock(t) ==
  /\ pc[t] = "rec_lock"
  /\ mu[CalcOf(t)].w = 0
  /\ mu' = [mu EXCEPT ![CalcOf(t)].r = @ \cup {t}]
  /\ frame' = [frame EXCEPT ![t].now = now]
  /\ pc' = [pc EXCEPT ![t] = "rec_start"]
  /\ UNCHANGED <<now, calcs, regVars, nops, histVars>>

\* t.mu.Lock(); now := time.Now()
RecordRequestLock(t) ==
  /\ pc[t] = "rec_lock"
  /\ CanLock(mu[CalcOf(t)])
  /\ mu' = [mu EXCEPT ![CalcOf(t)].w = t]
  /\ frame' = [frame EXCEPT ![t].now = now]
  /\ pc' = [pc EXCEPT ![t] = "rec_start"]
  /\ UNCHANGED <<now, calcs, regVars, nops, histVars>>

\* RecordRequest that sets startTime on every call
RecordRequestStart_Always(t) ==
  /\ pc[t] = "rec_start"
  /\ calcs' = [calcs EXCEPT ![CalcOf(t)].startTime = frame[t].now]
  /\ pc' = [pc EXCEPT ![t] = IF calcs[CalcOf(t)].isActive
                             THEN "rec_load" ELSE "rec_active"]
  /\ UNCHANGED <<now, mu, regVars, frame, nops, histVars>>

\* if !t.isActive { t.startTime = now
RecordRequestStart(t) ==
  /\ pc[t] = "rec_start"
  /\ IF ~calcs[CalcOf(t)].isActive
     THEN /\ calcs' = [calcs EXCEPT ![CalcOf(t)].startTime = frame[t].now]
          /\ pc' = [pc EXCEPT ![t] = "rec_active"]
     ELSE /\ pc' = [pc EXCEPT ![t] = "rec_load"]
          /\ UNCHANGED calcs
  /\ UNCHANGED <<now, mu, regVars, frame, nops, histVars>>

\* t.isActive = true }
RecordRequestActive(t) ==
  /\ pc[t] = "rec_active"
  /\ calcs' = [calcs EXCEPT ![CalcOf(t)].isActive = TRUE]
  /\ pc' = [pc EXCEPT ![t] = "rec_load"]
  /\ UNCHANGED <<now, mu, regVars, frame, nops, histVars>>

\* t.requestCount++ : the load
RecordRequestLoad(t) ==
  /\ pc[t] = "rec_load"
  /\ frame' = [frame EXCEPT ![t].count = calcs[CalcOf(t)].requestCount]
  /\ pc' = [pc EXCEPT ![t] = "rec_store"]
  /\ UNCHANGED <<now, calcVars, regVars, nops, histVars>>

\* the counter stored without the increment
RecordRequestStore_NoIncrement(t) ==
  /\ pc[t] = "rec_store"
  /\ calcs' = [calcs EXCEPT ![CalcOf(t)].requestCount = frame[t].count]
  /\ pc' = [pc EXCEPT ![t] = "rec_last"]
  /\ UNCHANGED <<now, mu, regVars, frame, nops, histVars>>

\* t.requestCount++ : the store of the value loaded plus one
RecordRequestStore(t) ==
  /\ pc[t] = "rec_store"
  /\ calcs' = [calcs EXCEPT ![CalcOf(t)].requestCount = frame[t].count + 1]
  /\ pc' = [pc EXCEPT ![t] = "rec_last"]
  /\ UNCHANGED <<now, mu, regVars, frame, nops, histVars>>

\* RecordRequest that returns with t.mu still locked
RecordRequestLast_NoUnlock(t) ==
  /\ pc[t] = "rec_last"
  /\ calcs' = [calcs EXCEPT ![CalcOf(t)].lastTime = frame[t].now]
  /\ completed' = [completed EXCEPT ![CalcOf(t)] = @ + 1]
  /\ recorded' = [recorded EXCEPT ![CalcOf(t)] = @ + 1]
  /\ served' = [served EXCEPT ![frame[t].webhook] = @ + 1]
  /\ pc' = [pc EXCEPT ![t] = AfterWrite(frame[t].handler)]
  /\ frame' = [frame EXCEPT ![t].status = 200]
  /\ UNCHANGED <<now, mu, regVars, nops, begun, snapLo, committed, posted, deleted>>

\* t.lastTime = now; the deferred t.mu.Unlock(); return
RecordRequestLast(t) ==
  /\ pc[t] = "rec_last"
  /\ LET c == CalcOf(t)
         after == [calcs[c] EXCEPT !.lastTime = frame[t].now]
     IN /\ calcs' = [calcs EXCEPT ![c] = after]
        /\ mu' = [mu EXCEPT ![c].w = IF @ = t THEN 0 ELSE @]
        /\ completed' = [completed EXCEPT ![c] = @ + 1]
        /\ recorded' = [recorded EXCEPT ![c] = @ + 1]
        /\ served' = [served EXCEPT ![frame[t].webhook] = @ + 1]
        /\ committed' = [committed EXCEPT ![c] = after]
  /\ pc' = [pc EXCEPT ![t] = AfterWrite(frame[t].handler)]
  /\ frame' = [frame EXCEPT ![t].status = 200]
  /\ UNCHANGED <<now, regVars, nops, begun, snapLo, posted, deleted>>

(* --------------------------- GetMetrics -------------------------------- *)
\* GetMetrics without t.mu.RLock(): the reader does not wait for a writer
GetMetricsLock_NoLock(t) ==
  /\ pc[t] = "met_lock"
  /\ pc' = [pc EXCEPT ![t] = "met_active"]
  /\ UNCHANGED <<now, calcVars, regVars, frame, nops, histVars>>

\* t.mu.RLock()
GetMetricsLock(t) ==
  /\ pc[t] = "met_lock"
  /\ CanRLock(mu[CalcOf(t)])
  /\ mu' = [mu EXCEPT ![CalcOf(t)].r = @ \cup {t}]
  /\ pc' = [pc EXCEPT ![t] = "met_active"]
  /\ UNCHANGED <<now, calcs, regVars, frame, nops, histVars>>

\* if !t.isActive { return the all-zero map }
GetMetricsActive(t) ==
  /\ pc[t] = "met_active"
  /\ IF ~calcs[CalcOf(t)].isActive
     THEN /\ frame' = [frame EXCEPT ![t].metrics = InactiveMetrics]
          /\ pc' = [pc EXCEPT ![t] = "met_unlock"]
     ELSE /\ pc' = [pc EXCEPT ![t] = "met_duration"]
          /\ UNCHANGED frame
  /\ UNCHANGED <<now, calcVars, regVars, nops, histVars>>

\* duration := t.lastTime.Sub(t.startTime).Seconds()
GetMetricsDuration(t) ==
  /\ pc[t] = "met_duration"
  /\ frame' = [frame EXCEPT ![t].duration =
                 Seconds(calcs[CalcOf(t)].lastTime - calcs[CalcOf(t)].startTime)]
  /\ pc' = [pc EXCEPT ![t] = "met_tps"]
  /\ UNCHANGED <<now, calcVars, regVars, nops, histVars>>

\* the division without the test of duration > 0
GetMetricsTps_Unguarded(t) ==
  /\ pc[t] = "met_tps"
  /\ frame' = [frame EXCEPT ![t].tps =
                 RatDiv(calcs[CalcOf(t)].requestCount,
                        frame[t].duration)]
  /\ pc' = [pc EXCEPT ![t] = "met_map"]
  /\ UNCHANGED <<now, calcVars, regVars, nops, histVars>>

\* var tps float64; if duration > 0 { tps = float64(t.requestCount) / duration }
GetMetricsTps(t) ==
  /\ pc[t] = "met_tps"
  /\ frame' = [frame EXCEPT ![t].tps =
                 IF RatPositive(frame[t].duration)
                 THEN RatDiv(calcs[CalcOf(t)].requestCount, frame[t].duration)
                 ELSE Rat(0)]
  /\ pc' = [pc EXCEPT ![t] = "met_map"]
  /\ UNCHANGED <<now, calcVars, regVars, nops, histVars>>

\* the map of the active calculator: the fields are read once more
GetMetricsMap(t) ==
  /\ pc[t] = "met_map"
  /\ frame' = [frame EXCEPT ![t].metrics =
                 [total_requests |-> calcs[CalcOf(t)].requestCount,
                  duration_seconds |-> frame[t].duration,
                  tps |-> frame[t].tps,
                  start_time |-> FormatRFC3339(calcs[CalcOf(t)].startTime),
                  end_time |-> FormatRFC3339(calcs[CalcOf(t)].lastTime)]]
  /\ pc' = [pc EXCEPT ![t] = "met_unlock"]
  /\ UNCHANGED <<now, calcVars, regVars, nops, histVars>>

\* GetMetrics that returns with t.mu still read-locked
GetMetricsUnlock_Held(t) ==
  /\ pc[t] = "met_unlock"
  /\ pc' = [pc EXCEPT ![t] = AfterRead(frame[t].handler)]
  /\ frame' = [frame EXCEPT ![t].status = 200]
  /\ UNCHANGED <<now, calcVars, regVars, nops, histVars>>

\* the deferred t.mu.RUnlock(), after the returned map was built
GetMetricsUnlock(t) ==
  /\ pc[t] = "met_unlock"
  /\ mu' = [mu EXCEPT ![CalcOf(t)].r = @ \ {t}]
  /\ pc' = [pc EXCEPT ![t] = AfterRead(frame[t].handler)]
  /\ frame' = [frame EXCEPT ![t].status = 200]
  /\ UNCHANGED <<now, calcs, regVars, nops, histVars>>

(* --------------------------- Reset ------------------------------------- *)
\* Reset with t.mu.RLock() in place of t.mu.Lock()
ResetLock_RLock(t) ==
  /\ pc[t] = "rst_lock"
  /\ mu[CalcOf(t)].w = 0
  /\ mu' = [mu EXCEPT ![CalcOf(t)].r = @ \cup {t}]
  /\ pc' = [pc EXCEPT ![t] = "rst_count"]
  /\ UNCHANGED <<now, calcs, regVars, frame, nops, histVars>>

\* t.mu.Lock()
ResetLock(t) ==
  /\ pc[t] = "rst_lock"
  /\ CanLock(mu[CalcOf(t)])
  /\ mu' = [mu EXCEPT ![CalcOf(t)].w = t]
  /\ pc' = [pc EXCEPT ![t] = "rst_count"]
  /\ UNCHANGED <<now, calcs, regVars, frame, nops, histVars>>

\* t.requestCount = 0
ResetCount(t) ==
  /\ pc[t] = "rst_count"
  /\ calcs' = [calcs EXCEPT ![CalcOf(t)].requestCount = 0]
  /\ pc' = [pc EXCEPT ![t] = "rst_start"]
  /\ UNCHANGED <<now, mu, regVars, frame, nops, histVars>>

\* t.startTime = time.Time{}
ResetStart(t) ==
  /\ pc[t] = "rst_start"
  /\ calcs' = [calcs EXCEPT ![CalcOf(t)].startTime = ZeroTime]
  /\ pc' = [pc EXCEPT ![t] = "rst_last"]
  /\ UNCHANGED <<now, mu, regVars, frame, nops, histVars>>

\* Reset that leaves lastTime as it was
ResetLast_Kept(t) ==
  /\ pc[t] = "rst_last"
  /\ pc' = [pc EXCEPT ![t] = "rst_active"]
  /\ UNCHANGED <<now, calcVars, regVars, frame, nops, histVars>>

\* t.lastTime = time.Time{}
ResetLast(t) ==
  /\ pc[t] = "rst_last"
  /\ calcs' = [calcs EXCEPT ![CalcOf(t)].lastTime = ZeroTime]
  /\ pc' = [pc EXCEPT ![t] = "rst_active"]
  /\ UNCHANGED <<now, mu, regVars, frame, nops, histVars>>

\* Reset that clears the counter and the times but leaves isActive set
ResetActive_StillActive(t) ==
  /\ pc[t] = "rst_active"
  /\ mu' = [mu EXCEPT ![CalcOf(t)].w =
              IF @ = t THEN 0 ELSE @]
  /\ completed' = [completed EXCEPT ![CalcOf(t)] = 0]
  /\ begun' = [begun EXCEPT ![CalcOf(t)] = Cardinality(Recording(CalcOf(t)))]
  /\ committed' = [committed EXCEPT ![CalcOf(t)] =
                     calcs[CalcOf(t)]]
  /\ pc' = [pc EXCEPT ![t] = "respond"]
  /\ frame' = [frame EXCEPT ![t].status = 200]
  /\ served' = [served EXCEPT ![frame[t].webhook] = 0]
  /\ UNCHANGED <<now, calcs, regVars, nops, recorded, snapLo, posted, deleted>>

\* t.isActive = false; the deferred t.mu.Unlock(); return
ResetActive(t) ==
  /\ pc[t] = "rst_active"
  /\ LET c == CalcOf(t)
         after == [calcs[c] EXCEPT !.isActive = FALSE]
     IN /\ calcs' = [calcs EXCEPT ![c] = after]
        /\ mu' = [mu EXCEPT ![c].w = IF @ = t THEN 0 ELSE @]
        /\ completed' = [completed EXCEPT ![c] = 0]
        /\ begun' = [begun EXCEPT ![c] = Cardinality(Recording(c))]
        /\ committed' = [committed EXCEPT ![c] = after]
        /\ snapLo' = [u \in Threads |->
                        IF pc[u] = "met_lock" /\ CalcOf(u) = c
                        THEN 0 ELSE snapLo[u]]
        /\ served' = [served EXCEPT ![frame[t].webhook] = 0]
  /\ pc' = [pc EXCEPT ![t] = "respond"]
  /\ frame' = [frame EXCEPT ![t].status = 200]
  /\ UNCHANGED <<now, regVars, nops, recorded, posted, deleted>>

(* --------------------------- the calculator alone ---------------------- *)
\* POST /api/request, GET /api/metrics, POST /api/reset: the legacy handlers,
\* which work on the calculator of "default"
StartLegacy(t, budget) ==
  \E h \in LegacyHandlers : Start(t, h, "default", budget)

CalculatorStep(t) ==
  \/ getWebhook(t)
  \/ getWebhookReturn(t)
  \/ RecordRequestLock(t)
  \/ RecordRequestStart(t)
  \/ RecordRequestActive(t)
  \/ RecordRequestLoad(t)
  \/ RecordRequestStore(t)
  \/ RecordRequestLast(t)
  \/ GetMetricsLock(t)
  \/ GetMetricsActive(t)
  \/ GetMetricsDuration(t)
  \/ GetMetricsTps(t)
  \/ GetMetricsMap(t)
  \/ GetMetricsUnlock(t)
  \/ ResetLock(t)
  \/ ResetCount(t)
  \/ ResetStart(t)
  \/ ResetLast(t)
  \/ ResetActive(t)
  \/ Respond(t)

NextCalc ==
  \/ Tick
  \/ \E t \in Threads : StartLegacy(t, MaxOps) \/ CalculatorStep(t)

\* any number of goroutines in the legacy handlers of one calculator
SpecCalc == Init /\ [][NextCalc]_vars

(* --------------------------- handleWebhookRequest ---------------------- *)
\* now := time.Now(), after webhook.Calculator.RecordRequest() has returned
handleWebhookRequestNow(t) ==
  /\ pc[t] = "hw_now"
  /\ frame' = [frame EXCEPT ![t].now = now]
  /\ pc' = [pc EXCEPT ![t] = "hw_last"]
  /\ UNCHANGED <<now, calcVars, regVars, nops, histVars>>

\* webhook.LastRequest = &now, with no lock held
handleWebhookRequestLast(t) ==
  /\ pc[t] = "hw_last"
  /\ heap' = [heap EXCEPT ![frame[t].webhook].LastRequest = frame[t].now]
  /\ pc' = [pc EXCEPT ![t] = "hw_timeout"]
  /\ UNCHANGED <<now, calcVars, webhooks, wsmu, router, frame, nops, histVars>>

\* if webhook.Config.Timeout > 0 { time.Sleep(...) : the goroutine falls asleep
\* for that many milliseconds, or goes on without delay
handleWebhookRequestTimeout(t) ==
  /\ pc[t] = "hw_timeout"
  /\ LET timeout == heap[frame[t].webhook].Config.Timeout
     IN /\ pc' = [pc EXCEPT ![t] = IF timeout > 0 THEN "hw_sleep" ELSE "hw_write"]
        /\ frame' = [frame EXCEPT
                       ![t].response =
                         [delay |-> IF timeout > 0 THEN timeout ELSE 0],
                       ![t].versions =
                         <<heap[frame[t].webhook].Config>>]
  /\ UNCHANGED <<now, calcVars, regVars, nops, histVars>>

\* a request that takes its event back when its delay is over
handleWebhookRequestSleep_Retract(t) ==
  /\ pc[t] = "hw_sleep"
  /\ calcs' = [calcs EXCEPT ![CalcOf(t)].requestCount = @ - 1]
  /\ pc' = [pc EXCEPT ![t] = "hw_write"]
  /\ UNCHANGED <<now, mu, regVars, frame, nops, histVars>>

\* time.Sleep returns
handleWebhookRequestSleep(t) ==
  /\ pc[t] = "hw_sleep"
  /\ pc' = [pc EXCEPT ![t] = "hw_write"]
  /\ UNCHANGED <<now, calcVars, regVars, frame, nops, histVars>>

\* for key, value := range webhook.Config.Headers { c.Header(key, value) };
\* c.Header("Content-Type", webhook.Config.ContentType);
\* c.String(webhook.Config.StatusCode, webhook.Config.ResponseBody)
handleWebhookRequestWrite(t) ==
  /\ pc[t] = "hw_write"
  /\ LET cfg == heap[frame[t].webhook].Config
     IN frame' = [frame EXCEPT
                    ![t].status = cfg.StatusCode,
                    ![t].response =
                      [delay |-> @.delay,
                       status |-> cfg.StatusCode,
                       body |-> cfg.ResponseBody,
                       headers |-> MergeHeaders(cfg.Headers,
                                     << <<"Content-Type", cfg.ContentType>> >>)],
                    ![t].versions = Append(@, cfg)]
  /\ pc' = [pc EXCEPT ![t] = "respond"]
  /\ UNCHANGED <<now, calcVars, regVars, nops, histVars>>

(* --------------------------- createWebhook ----------------------------- *)
\* strings.HasPrefix(path, "/")
HasSlashPrefix(path) == Len(path) > 0 /\ path[1] = "/"

\* the path stored as it was asked for, with no "/" put before it
FinalPath_AsGiven(path, id) ==
  IF path = <<>> THEN <<"/", "w", "/", id>> ELSE path

\* the path createWebhook stores: /w/{id} for no path, else the path with a
\* leading "/"
FinalPath(path, id) ==
  IF path = <<>> THEN <<"/", "w", "/", id>>
  ELSE IF HasSlashPrefix(path) THEN path
  ELSE <<"/">> \o path

\* POST /api/webhooks: the defaults put into the decoded config
ConfigDefaults(cfg) ==
  [cfg EXCEPT !.StatusCode = IF @ = 0 THEN 200 ELSE @,
              !.ContentType = IF @ = "" THEN "application/json" ELSE @,
              !.ResponseBody = IF @ = "" THEN "received" ELSE @,
              !.Headers = IF @ = NilHeaders THEN <<>> ELSE @]

\* the first eight hex digits of a random uuid: any of these, used or not
NewIDs == {"a1", "b2"}

\* the paths a client asks for: none, one without and one with the leading "/"
CreatePaths == {<<>>, <<"hook">>, <<"/", "hook">>}

\* the configs a client sends: the empty one, and one with a status, a body
\* and a delay
CreateConfigs ==
  {[StatusCode |-> 0, ContentType |-> "", ResponseBody |-> "", Timeout |-> 0,
    Headers |-> NilHeaders, EnableLogging |-> FALSE],
   [StatusCode |-> 201, ContentType |-> "", ResponseBody |-> "ok",
    Timeout |-> 50, Headers |-> <<>>, EnableLogging |-> TRUE]}

\* a webhook created with the calculator of the first webhook
NewCalculator_Shared == heap[1].Calculator

\* Calculator: NewTPSCalculator() in createWebhook: the calculator allocated
\* for the new webhook, which no other webhook has
NewCalculator == Len(calcs) + 1

\* POST /api/webhooks, JSON decoded: createWebhook takes ws.mu.Lock, builds
\* the webhook and puts it into the map under its id, whatever was there.
\* The uuid is one of ids, the request asks for one of paths and configs
\* (the frame keeps req.Path as the body of the request).
createWebhookOf(t, ids, paths, configs) ==
  /\ pc[t] = "create"
  /\ CanLock(wsmu)
  /\ wsmu' = [wsmu EXCEPT !.w = t]
  /\ \E id \in ids, path \in paths, cfg \in configs :
       LET webhook == [ID |-> id, Name |-> "name", Path |-> FinalPath(path, id),
                       Config |-> ConfigDefaults(cfg),
                       Calculator |-> NewCalculator,
                       CreatedAt |-> now, LastRequest |-> ZeroTime]
       IN /\ heap' = Append(heap, webhook)
          /\ webhooks' = [i \in DOMAIN webhooks \cup {id} |->
                            IF i = id THEN Len(heap) + 1 ELSE webhooks[i]]
          /\ frame' = [frame EXCEPT ![t].webhook = Len(heap) + 1,
                                    ![t].before = heap,
                                    ![t].body = [path |-> path]]
  /\ calcs' = Append(calcs, NewTPSCalculator)
  /\ mu' = Append(mu, NewRWMutex)
  /\ begun' = Append(begun, 0)
  /\ completed' = Append(completed, 0)
  /\ recorded' = Append(recorded, 0)
  /\ served' = Append(served, 0)
  /\ committed' = Append(committed, NewTPSCalculator)
  /\ pc' = [pc EXCEPT ![t] = "create_route"]
  /\ UNCHANGED <<now, router, nops, snapLo, posted, deleted>>

\* ws.registerWebhookRoute(webhook), still under ws.mu: router.Any registers
\* the path, and panics when the path has handlers already; then the deferred
\* ws.mu.Unlock() runs and the handler (or, after a panic, the recovery
\* middleware) has the status to answer
registerWebhookRoute(t) ==
  /\ pc[t] = "create_route"
  /\ LET webhook == heap[frame[t].webhook]
     IN IF webhook.Path \in DOMAIN router
        THEN /\ router' = router
             /\ frame' = [frame EXCEPT ![t].status = 500]
        ELSE /\ router' = [p \in DOMAIN router \cup {webhook.Path} |->
                             IF p = webhook.Path THEN webhook.ID ELSE router[p]]
             /\ frame' = [frame EXCEPT ![t].status = 201]
  /\ wsmu' = [wsmu EXCEPT !.w = 0]
  /\ pc' = [pc EXCEPT ![t] = "respond"]
  /\ UNCHANGED <<now, calcVars, heap, webhooks, nops, histVars>>

\* createWebhook for any of the ids, paths and configs above
createWebhook(t) == createWebhookOf(t, NewIDs, CreatePaths, CreateConfigs)

(* --------------------------- deleteWebhook ----------------------------- *)
\* deleteWebhook without the test for the built-in ids
deleteWebhook_Unprotected(t) ==
  /\ pc[t] = "delete"
  /\ CanLock(wsmu)
  /\ IF frame[t].id \notin DOMAIN webhooks
     THEN /\ frame' = [frame EXCEPT ![t].status = 404]
          /\ UNCHANGED webhooks
     ELSE /\ webhooks' = [i \in DOMAIN webhooks \ {frame[t].id} |-> webhooks[i]]
          /\ frame' = [frame EXCEPT ![t].status = 200]
  /\ deleted' = IF frame[t].id \in DOMAIN webhooks
                THEN deleted \cup {webhooks[frame[t].id]} ELSE deleted
  /\ pc' = [pc EXCEPT ![t] = "respond"]
  /\ UNCHANGED <<now, calcVars, heap, wsmu, router, nops, begun, completed,
                 committed, snapLo, recorded, served, posted>>

\* deleteWebhook that returns true and leaves the entry in the map
deleteWebhook_NotRemoved(t) ==
  /\ pc[t] = "delete"
  /\ CanLock(wsmu)
  /\ frame' = [frame EXCEPT ![t].status =
                 IF frame[t].id \in ProtectedIDs
                    \/ frame[t].id \notin DOMAIN webhooks
                 THEN 404 ELSE 200]
  /\ pc' = [pc EXCEPT ![t] = "respond"]
  /\ UNCHANGED <<now, calcVars, regVars, nops, histVars>>

\* DELETE /api/webhooks/:id: deleteWebhook, from ws.mu.Lock() to the deferred
\* ws.mu.Unlock(); and the status the handler answers with
deleteWebhook(t) ==
  /\ pc[t] = "delete"
  /\ CanLock(wsmu)
  /\ LET id == frame[t].id
     IN IF id \in ProtectedIDs \/ id \notin DOMAIN webhooks
        THEN /\ frame' = [frame EXCEPT ![t].status = 404]
             /\ UNCHANGED <<webhooks, deleted>>
        ELSE /\ webhooks' = [i \in DOMAIN webhooks \ {id} |-> webhooks[i]]
             /\ deleted' = deleted \cup {webhooks[id]}
             /\ frame' = [frame EXCEPT ![t].status = 200]
  /\ pc' = [pc EXCEPT ![t] = "respond"]
  /\ UNCHANGED <<now, calcVars, heap, wsmu, router, nops, begun, completed,
                 committed, snapLo, recorded, served, posted>>

(* --------------------------- the update handlers ----------------------- *)
\* a JSON object is the function from the keys it has to their values
Has(obj, k) == k \in DOMAIN obj

\* encoding/json into a field that is not a pointer: the zero value stays
\* when the key is missing
Field(obj, k, zero) == IF Has(obj, k) THEN obj[k] ELSE zero

\* encoding/json into a pointer field: nil when the key is missing
PtrField(obj, k) == IF Has(obj, k) THEN Ptr(obj[k]) ELSE NilPtr

\* ShouldBindJSON into a WebhookConfig
DecodeConfig(obj) ==
  [StatusCode |-> Field(obj, "status_code", 0),
   ContentType |-> Field(obj, "content_type", ""),
   ResponseBody |-> Field(obj, "response_body", ""),
   Timeout |-> Field(obj, "timeout", 0),
   Headers |-> Field(obj, "headers", NilHeaders),
   EnableLogging |-> Field(obj, "enable_logging", FALSE)]

\* ShouldBindJSON into updateReq of the PUT handler
DecodePut(body) ==
  [Name |-> Field(body, "name", ""),
   Path |-> Field(body, "path", <<>>),
   Config |-> DecodeConfig(Field(body, "config", <<>>))]

\* ShouldBindJSON into patchReq of the PATCH handler
DecodePatch(body) ==
  [Name |-> PtrField(body, "name"),
   Path |-> PtrField(body, "path"),
   Config |-> IF Has(body, "config")
              THEN Ptr([StatusCode |-> PtrField(body.config, "status_code"),
                        ContentType |-> PtrField(body.config, "content_type"),
                        ResponseBody |-> PtrField(body.config, "response_body"),
                        Timeout |-> PtrField(body.config, "timeout"),
                        Headers |-> Field(body.config, "headers", NilHeaders),
                        EnableLogging |->
                          PtrField(body.config, "enable_logging")])
              ELSE NilPtr]

\* ShouldBindJSON into one entry of bulkUpdateReq.Updates
DecodeBulk(obj) ==
  [Name |-> Field(obj, "name", ""),
   Config |-> DecodeConfig(Field(obj, "config", <<>>))]

\* the path with a leading "/"
WithSlash(path) == IF HasSlashPrefix(path) THEN path ELSE <<"/">> \o path

\* the PUT handler with the path written for the built-in ids too
PutMerge_PathUnguarded(webhook, id, req) ==
  [webhook EXCEPT
     !.Name = IF req.Name # "" THEN req.Name ELSE @,
     !.Path = IF req.Path # <<>> THEN WithSlash(req.Path) ELSE @]

\* the PUT handler's updates of the webhook it found under the lock
PutMerge(webhook, id, req) ==
  LET c == webhook.Config
      r == req.Config
  IN [webhook EXCEPT
        !.Name = IF req.Name # "" THEN req.Name ELSE @,
        !.Path = IF req.Path # <<>> /\ id # "default" /\ id # "fast"
                    /\ id # "slow"
                 THEN WithSlash(req.Path) ELSE @,
        !.Config =
          [StatusCode |-> IF r.StatusCode # 0 THEN r.StatusCode
                          ELSE c.StatusCode,
           ContentType |-> IF r.ContentType # "" THEN r.ContentType
                           ELSE c.ContentType,
           ResponseBody |-> IF r.ResponseBody # "" THEN r.ResponseBody
                            ELSE c.ResponseBody,
           Timeout |-> IF r.Timeout >= 0 THEN r.Timeout ELSE c.Timeout,
           Headers |-> IF r.Headers # NilHeaders
                       THEN MergeHeaders(c.Headers, r.Headers) ELSE c.Headers,
           EnableLogging |-> r.EnableLogging]]

\* the PATCH handler's updates of the webhook it found under the lock
PatchMerge(webhook, id, req) ==
  LET c == webhook.Config
  IN [webhook EXCEPT
        !.Name = IF req.Name # NilPtr THEN req.Name[1] ELSE @,
        !.Path = IF req.Path # NilPtr /\ id # "default" /\ id # "fast"
                    /\ id # "slow"
                 THEN WithSlash(req.Path[1]) ELSE @,
        !.Config =
          IF req.Config = NilPtr THEN c
          ELSE LET r == req.Config[1]
               IN [StatusCode |-> IF r.StatusCode # NilPtr
                                  THEN r.StatusCode[1] ELSE c.StatusCode,
                   ContentType |-> IF r.ContentType # NilPtr
                                   THEN r.ContentType[1] ELSE c.ContentType,
                   ResponseBody |-> IF r.ResponseBody # NilPtr
                                    THEN r.ResponseBody[1] ELSE c.ResponseBody,
                   Timeout |-> IF r.Timeout # NilPtr
                               THEN r.Timeout[1] ELSE c.Timeout,
                   Headers |-> IF r.Headers # NilHeaders
                               THEN MergeHeaders(c.Headers, r.Headers)
                               ELSE c.Headers,
                   EnableLogging |-> IF r.EnableLogging # NilPtr
                                     THEN r.EnableLogging[1]
                                     ELSE c.EnableLogging]]

\* the bulk handler's updates of one webhook
BulkMerge(webhook, upd) ==
  [webhook EXCEPT
     !.Name = IF upd.Name # "" THEN upd.Name ELSE @,
     !.Config = IF upd.Config.StatusCode # 0 THEN upd.Config ELSE @]

\* a request with a JSON body arrives: PUT or PATCH /api/webhooks/:id,
\* PUT /api/webhooks/bulk (which looks no id up first), POST /api/config
StartBody(t, h, id, body, budget) ==
  /\ pc[t] = "idle"
  /\ nops < budget
  /\ nops' = nops + 1
  /\ pc' = [pc EXCEPT ![t] = IF h = "bulk" THEN "bulk_lock" ELSE "get"]
  /\ frame' = [frame EXCEPT ![t] =
                 [IdleFrame EXCEPT !.handler = h, !.id = id, !.body = body]]
  /\ UNCHANGED <<now, calcVars, regVars, histVars>>

\* PUT and PATCH that take the lock and go on with the webhook of the first
\* lookup
UpdateLock_NoRecheck(t) ==
  /\ pc[t] = "upd_lock"
  /\ CanLock(wsmu)
  /\ wsmu' = [wsmu EXCEPT !.w = t]
  /\ frame' = [frame EXCEPT ![t].before = heap]
  /\ pc' = [pc EXCEPT ![t] = "upd_merge"]
  /\ UNCHANGED <<now, calcVars, heap, webhooks, router, nops, histVars>>

\* PUT and PATCH, the body bound: webhookServer.mu.Lock(), and the second
\* look at the map; a webhook deleted meanwhile is answered 404
UpdateLock(t) ==
  /\ pc[t] = "upd_lock"
  /\ CanLock(wsmu)
  /\ wsmu' = [wsmu EXCEPT !.w = t]
  /\ IF frame[t].id \in DOMAIN webhooks
     THEN /\ frame' = [frame EXCEPT ![t].webhook = webhooks[frame[t].id],
                                    ![t].before = heap]
          /\ pc' = [pc EXCEPT ![t] = "upd_merge"]
     ELSE /\ frame' = [frame EXCEPT ![t].webhook = NilWebhook,
                                    ![t].before = heap,
                                    ![t].status = 404]
          /\ pc' = [pc EXCEPT ![t] = "respond_locked"]
  /\ UNCHANGED <<now, calcVars, heap, webhooks, router, nops, histVars>>

\* PUT and PATCH that register a route for the path they store
UpdateMerge_Reroute(t) ==
  /\ pc[t] = "upd_merge"
  /\ heap' = [heap EXCEPT ![frame[t].webhook] =
                IF frame[t].handler = "put"
                THEN PutMerge(@, frame[t].id, DecodePut(frame[t].body))
                ELSE PatchMerge(@, frame[t].id, DecodePatch(frame[t].body))]
  /\ router' = [p \in DOMAIN router \cup {heap'[frame[t].webhook].Path} |->
                  IF p = heap'[frame[t].webhook].Path THEN frame[t].id
                  ELSE router[p]]
  /\ frame' = [frame EXCEPT ![t].status = 200]
  /\ pc' = [pc EXCEPT ![t] = "respond_locked"]
  /\ UNCHANGED <<now, calcVars, webhooks, wsmu, nops, histVars>>

\* PUT and PATCH that give the webhook a calculator in its first state
UpdateMerge_ResetMetrics(t) ==
  /\ pc[t] = "upd_merge"
  /\ heap' = [heap EXCEPT ![frame[t].webhook] =
                IF frame[t].handler = "put"
                THEN PutMerge(@, frame[t].id, DecodePut(frame[t].body))
                ELSE PatchMerge(@, frame[t].id, DecodePatch(frame[t].body))]
  /\ calcs' = [calcs EXCEPT ![CalcOf(t)] = NewTPSCalculator]
  /\ frame' = [frame EXCEPT ![t].status = 200]
  /\ pc' = [pc EXCEPT ![t] = "respond_locked"]
  /\ UNCHANGED <<now, mu, webhooks, wsmu, router, nops, histVars>>

\* the name, the path and the config fields are written
UpdateMerge(t) ==
  /\ pc[t] = "upd_merge"
  /\ heap' = [heap EXCEPT ![frame[t].webhook] =
                IF frame[t].handler = "put"
                THEN PutMerge(@, frame[t].id, DecodePut(frame[t].body))
                ELSE PatchMerge(@, frame[t].id, DecodePatch(frame[t].body))]
  /\ frame' = [frame EXCEPT ![t].status = 200]
  /\ pc' = [pc EXCEPT ![t] = "respond_locked"]
  /\ UNCHANGED <<now, calcVars, webhooks, wsmu, router, nops, histVars>>

\* PUT /api/webhooks/bulk, the body bound: webhookServer.mu.Lock()
BulkLock(t) ==
  /\ pc[t] = "bulk_lock"
  /\ CanLock(wsmu)
  /\ wsmu' = [wsmu EXCEPT !.w = t]
  /\ frame' = [frame EXCEPT ![t].before = heap]
  /\ pc' = [pc EXCEPT ![t] = "bulk_apply"]
  /\ UNCHANGED <<now, calcVars, heap, webhooks, router, nops, histVars>>

\* for webhookID, updateData := range bulkUpdateReq.Updates { ... }
BulkApply(t) ==
  /\ pc[t] = "bulk_apply"
  /\ LET updates == frame[t].body.updates
         found == DOMAIN updates \cap DOMAIN webhooks
     IN heap' = [o \in DOMAIN heap |->
                   IF \E id \in found : webhooks[id] = o
                   THEN BulkMerge(heap[o],
                          DecodeBulk(updates[CHOOSE id \in found :
                                               webhooks[id] = o]))
                   ELSE heap[o]]
  /\ frame' = [frame EXCEPT ![t].status = 200]
  /\ pc' = [pc EXCEPT ![t] = "respond_locked"]
  /\ UNCHANGED <<now, calcVars, webhooks, wsmu, router, nops, histVars>>

\* c.JSON of the PUT, PATCH and bulk handlers, written while ws.mu is held;
\* the deferred webhookServer.mu.Unlock() runs when the handler returns
RespondLocked(t) ==
  /\ pc[t] = "respond_locked"
  /\ wsmu' = [wsmu EXCEPT !.w = 0]
  /\ pc' = [pc EXCEPT ![t] = "idle"]
  /\ frame' = [frame EXCEPT ![t] = IdleFrame]
  /\ UNCHANGED <<now, calcVars, heap, webhooks, router, nops, histVars>>

\* c.JSON of a WebhookConfig: every field under its json tag; a nil map is
\* written as null, which decodes to the nil map
EncodeConfig(cfg) ==
  [status_code |-> cfg.StatusCode, content_type |-> cfg.ContentType,
   response_body |-> cfg.ResponseBody, timeout |-> cfg.Timeout,
   headers |-> cfg.Headers, enable_logging |-> cfg.EnableLogging]

\* GET /api/config, "default" found: c.JSON(http.StatusOK, webhook.Config),
\* with no lock held
ConfigRead(t) ==
  /\ pc[t] = "cfg_read"
  /\ frame' = [frame EXCEPT
                 ![t].status = 200,
                 ![t].response = EncodeConfig(heap[frame[t].webhook].Config)]
  /\ pc' = [pc EXCEPT ![t] = "respond"]
  /\ UNCHANGED <<now, calcVars, regVars, nops, histVars>>

\* POST /api/config, "default" found: webhookServer.mu.Lock()
ConfigLock(t) ==
  /\ pc[t] = "cfg_lock"
  /\ CanLock(wsmu)
  /\ wsmu' = [wsmu EXCEPT !.w = t]
  /\ frame' = [frame EXCEPT ![t].before = heap]
  /\ pc' = [pc EXCEPT ![t] = "cfg_write"]
  /\ UNCHANGED <<now, calcVars, heap, webhooks, router, nops, histVars>>

\* POST /api/config that stores the config under the defaults of
\* POST /api/webhooks
ConfigWrite_Defaults(t) ==
  /\ pc[t] = "cfg_write"
  /\ heap' = [heap EXCEPT ![frame[t].webhook].Config =
                ConfigDefaults(DecodeConfig(frame[t].body))]
  /\ posted' = DecodeConfig(frame[t].body)
  /\ wsmu' = [wsmu EXCEPT !.w = 0]
  /\ frame' = [frame EXCEPT ![t].status = 200]
  /\ pc' = [pc EXCEPT ![t] = "respond"]
  /\ UNCHANGED <<now, calcVars, webhooks, router, nops, begun, completed,
                 committed, snapLo, recorded, served, deleted>>

\* webhook.Config = newConfig; webhookServer.mu.Unlock().  On a nil webhook
\* the assignment panics: the recovery middleware answers 500 and the Unlock,
\* which is not deferred, never runs.
ConfigWrite(t) ==
  /\ pc[t] = "cfg_write"
  /\ IF frame[t].webhook # NilWebhook
     THEN /\ heap' = [heap EXCEPT ![frame[t].webhook].Config =
                        DecodeConfig(frame[t].body)]
          /\ posted' = DecodeConfig(frame[t].body)
          /\ wsmu' = [wsmu EXCEPT !.w = 0]
          /\ frame' = [frame EXCEPT ![t].status = 200]
     ELSE /\ frame' = [frame EXCEPT ![t].status = 500]
          /\ UNCHANGED <<heap, posted, wsmu>>
  /\ pc' = [pc EXCEPT ![t] = "respond"]
  /\ UNCHANGED <<now, calcVars, webhooks, router, nops, begun, completed,
                 committed, snapLo, recorded, served, deleted>>

\* the steps of the PUT, PATCH and bulk handlers
UpdateStep(t) ==
  \/ UpdateLock(t)
  \/ UpdateMerge(t)
  \/ BulkLock(t)
  \/ BulkApply(t)
  \/ RespondLocked(t)

\* the steps of POST /api/config
ConfigStep(t) ==
  \/ ConfigLock(t)
  \/ ConfigWrite(t)

(* --------------------------- the server -------------------------------- *)
\* the ids that requests name: two built-in webhooks and a generated id,
\* whether a webhook has it yet or not
RequestIDs == {"default", "slow", "a1"}

\* a request on /w/:id or on a registered path, GET /api/webhooks/:id/metrics,
\* POST /api/webhooks/:id/reset
StartChecked(t, ids, budget) ==
  \E h \in CheckedHandlers, id \in ids : Start(t, h, id, budget)

\* POST /api/webhooks
StartCreate(t, budget) == Start(t, "create", "", budget)

\* DELETE /api/webhooks/:id
StartDelete(t, budget) ==
  \E id \in RequestIDs : Start(t, "delete", id, budget)

\* the steps of handleWebhookRequest after RecordRequest
RequestStep(t) ==
  \/ handleWebhookRequestNow(t)
  \/ handleWebhookRequestLast(t)
  \/ handleWebhookRequestTimeout(t)
  \/ handleWebhookRequestSleep(t)
  \/ handleWebhookRequestWrite(t)

\* one goroutine alone serves every request: each handler returns before the
\* next request arrives
NextSeq ==
  \/ Tick
  \/ StartChecked(1, RequestIDs, MaxOps)
  \/ StartCreate(1, MaxOps)
  \/ StartDelete(1, MaxOps)
  \/ createWebhook(1)
  \/ registerWebhookRoute(1)
  \/ deleteWebhook(1)
  \/ RequestStep(1)
  \/ CalculatorStep(1)

SpecSeq == Init /\ [][NextSeq]_vars

(* --------------------------- the management API ------------------------ *)
\* the ids that updates name: a built-in webhook with a delay and logging on,
\* and a generated id, whether a webhook has it yet or not
UpdateIDs == {"slow", "a1"}

\* the config objects a client sends: one field alone, a numeric field given
\* as 0, and a header
ConfigObjects ==
  {[status_code |-> 201], [timeout |-> 0], [status_code |-> 0],
   [headers |-> << <<"X", "1">> >>]}

\* the bodies of PUT and PATCH /api/webhooks/:id: a config object, a new
\* path, a new name
UpdateBodies ==
  {[config |-> c] : c \in ConfigObjects}
    \cup {[path |-> <<"moved">>], [name |-> "renamed"]}

\* the bodies of PUT /api/webhooks/bulk: one update, for one id, and one
\* update for each of the ids
BulkBodies ==
  {[updates |-> [i \in {id} |-> [config |-> c]]] :
     id \in UpdateIDs, c \in ConfigObjects}
    \cup {[updates |-> [i \in UpdateIDs |-> [config |-> [status_code |-> 201]]]]}

\* PUT and PATCH /api/webhooks/:id
StartUpdate(t, budget) ==
  \E h \in {"put", "patch"}, id \in UpdateIDs, body \in UpdateBodies :
    StartBody(t, h, id, body, budget)

\* PUT /api/webhooks/bulk
StartBulk(t, budget) ==
  \E body \in BulkBodies : StartBody(t, "bulk", "", body, budget)

\* the config of the README's "Configure Custom Response": every field but
\* enable_logging
ReadmeConfig ==
  [status_code |-> 201, content_type |-> "application/json",
   response_body |-> "created", timeout |-> 500,
   headers |-> << <<"X-Request-ID", "abc123">> >>]

\* POST /api/config
StartConfig(t, budget) ==
  \E body \in ConfigObjects \cup {ReadmeConfig} :
    StartBody(t, "api_config", "default", body, budget)

\* GET /api/webhooks/:id
StartShow(t, budget) ==
  \E id \in UpdateIDs : Start(t, "show", id, budget)

\* GET /api/config, and a request on /w/default
StartDefault(t, budget) ==
  \E h \in ConfigHandlers \cup {"webhook"} : Start(t, h, "default", budget)

\* a request on a path that registerWebhookRoute has registered: gin calls
\* the closure, which calls handleWebhookRequest with the id it was made for
StartRoute(t, budget) ==
  \E p \in DOMAIN router :
    StartBody(t, "webhook", router[p], [route |-> p], budget)

\* one goroutine alone serves the management API and the requests to the
\* webhooks it manages
NextUpd ==
  \/ StartRoute(1, MaxOps)
  \/ StartDefault(1, MaxOps)
  \/ ConfigRead(1)
  \/ StartUpdate(1, MaxOps)
  \/ StartBulk(1, MaxOps)
  \/ StartConfig(1, MaxOps)
  \/ StartShow(1, MaxOps)
  \/ StartCreate(1, MaxOps)
  \/ StartDelete(1, MaxOps)
  \/ StartChecked(1, UpdateIDs, MaxOps)
  \/ createWebhook(1)
  \/ registerWebhookRoute(1)
  \/ deleteWebhook(1)
  \/ UpdateStep(1)
  \/ ConfigStep(1)
  \/ RequestStep(1)
  \/ CalculatorStep(1)

SpecUpd == Init /\ [][NextUpd]_vars

(* --------------------------- /api/summary ------------------------------ *)
\* GET /api/summary arrives
StartSummary(t, budget) ==
  /\ pc[t] = "idle"
  /\ nops < budget
  /\ nops' = nops + 1
  /\ pc' = [pc EXCEPT ![t] = "sum_all"]
  /\ frame' = [frame EXCEPT ![t] = [IdleFrame EXCEPT !.handler = "summary"]]
  /\ UNCHANGED <<now, calcVars, regVars, histVars>>

\* getAllWebhooks that copies the map without ws.mu.RLock()
getAllWebhooks_NoRLock(t) ==
  /\ pc[t] = "sum_all"
  /\ frame' = [frame EXCEPT ![t].todo = {webhooks[id] : id \in DOMAIN webhooks}]
  /\ pc' = [pc EXCEPT ![t] = "sum_all_ret"]
  /\ UNCHANGED <<now, calcVars, regVars, nops, histVars>>

\* ws.getAllWebhooks(): ws.mu.RLock(), and the pointers in the map copied
getAllWebhooks(t) ==
  /\ pc[t] = "sum_all"
  /\ CanRLock(wsmu)
  /\ wsmu' = [wsmu EXCEPT !.r = @ \cup {t}]
  /\ frame' = [frame EXCEPT ![t].todo = {webhooks[id] : id \in DOMAIN webhooks}]
  /\ pc' = [pc EXCEPT ![t] = "sum_all_ret"]
  /\ UNCHANGED <<now, calcVars, heap, webhooks, router, nops, histVars>>

\* the deferred ws.mu.RUnlock() of getAllWebhooks
getAllWebhooksReturn(t) ==
  /\ pc[t] = "sum_all_ret"
  /\ wsmu' = [wsmu EXCEPT !.r = @ \ {t}]
  /\ pc' = [pc EXCEPT ![t] = "sum_next"]
  /\ UNCHANGED <<now, calcVars, heap, webhooks, router, frame, nops, histVars>>

\* for _, webhook := range webhooks { metrics := webhook.Calculator.GetMetrics()
\* and, past the last webhook, c.JSON
SummaryNext(t) ==
  /\ pc[t] = "sum_next"
  /\ IF frame[t].todo = {}
     THEN /\ frame' = [frame EXCEPT ![t].status = 200]
          /\ pc' = [pc EXCEPT ![t] = "respond"]
          /\ UNCHANGED snapLo
     ELSE \E o \in frame[t].todo :
            /\ frame' = [frame EXCEPT ![t].webhook = o, ![t].todo = @ \ {o}]
            /\ pc' = [pc EXCEPT ![t] = "met_lock"]
            /\ snapLo' = [snapLo EXCEPT ![t] = completed[heap[o].Calculator]]
  /\ UNCHANGED <<now, calcVars, regVars, nops, begun, completed, committed,
                 recorded, served, posted, deleted>>

\* summary[webhook.ID] = ...: webhook.Name, webhook.Path and
\* webhook.Config.Timeout are read, with no lock held
SummaryEntry(t) ==
  /\ pc[t] = "sum_entry"
  /\ pc' = [pc EXCEPT ![t] = "sum_next"]
  /\ UNCHANGED <<now, calcVars, regVars, frame, nops, histVars>>

SummaryStep(t) ==
  \/ getAllWebhooks(t)
  \/ getAllWebhooksReturn(t)
  \/ SummaryNext(t)
  \/ SummaryEntry(t)

(* --------------------------- the server, concurrent -------------------- *)
\* the body of the updates that run beside the requests: one field alone
RegBody == [config |-> [status_code |-> 201]]

\* requests on /w/slow, its metrics and its reset, a PUT of "slow" and a bulk
\* update of it, POST /api/config, a new webhook "a1" on /hook, a DELETE
StartReg(t, budget) ==
  \/ StartChecked(t, {"slow"}, budget)
  \/ StartBody(t, "put", "slow", RegBody, budget)
  \/ StartBody(t, "api_config", "default", RegBody.config, budget)
  \/ StartBody(t, "bulk", "", [updates |-> [i \in {"slow"} |-> RegBody]], budget)
  \/ StartCreate(t, budget)
  \/ \E id \in UpdateIDs : Start(t, "delete", id, budget)

\* a step of a handler that has started
HandlerStep(t) ==
  \/ createWebhookOf(t, {"a1"}, {<<"hook">>}, {DecodeConfig(RegBody.config)})
  \/ registerWebhookRoute(t)
  \/ deleteWebhook(t)
  \/ UpdateStep(t)
  \/ ConfigStep(t)
  \/ SummaryStep(t)
  \/ RequestStep(t)
  \/ CalculatorStep(t)

\* the summaries are served one after the other, by the first goroutine
NextReg ==
  \/ StartSummary(1, MaxRegOps)
  \/ \E t \in Threads : StartReg(t, MaxRegOps) \/ HandlerStep(t)

\* any number of goroutines in the handlers of the registry and of the
\* webhooks, at one reading of the clock
SpecReg == Init /\ [][NextReg]_vars

(* --------------------------- the calculator of one webhook, scheduled -- *)
\* requests on /w/slow, its metrics and its reset, beside a PUT of "slow" and
\* a DELETE, which take ws.mu
StartLive(t, budget) ==
  \/ StartChecked(t, {"slow"}, budget)
  \/ StartBody(t, "put", "slow", RegBody, budget)
  \/ Start(t, "delete", "a1", budget)

LiveStep(t) ==
  \/ deleteWebhook(t)
  \/ UpdateLock(t)
  \/ UpdateMerge(t)
  \/ RespondLocked(t)
  \/ RequestStep(t)
  \/ CalculatorStep(t)

NextLive == \E t \in Threads : StartLive(t, MaxRegOps) \/ LiveStep(t)

\* the goroutines under the Go scheduler, which runs every goroutine that can
\* take a step: a goroutine waiting in Lock or RLock goes on once the mutex
\* stays free for it, and a sleeping one wakes up.  Requests need not arrive.
FairLive ==
  Init /\ [][NextLive]_vars /\ \A t \in Threads : WF_vars(LiveStep(t))

(* --------------------------- startup from config.yaml ------------------ *)
\* default_webhooks of a config.yaml that loadConfigFromYAML can read: a file
\* without the key, a file that lists "default", a file that lists one
\* webhook of another id (with no headers)
YamlFiles ==
  {<<>>,
   <<[ID |-> "default", Name |-> "Default Webhook",
      Path |-> <<"/", "webhook">>, Config |-> DefaultConfig]>>,
   <<[ID |-> "orders", Name |-> "Orders", Path |-> <<"/", "hook">>,
      Config |-> [DefaultConfig EXCEPT !.Headers = NilHeaders]]>>}

\* the webhooks loadWebhooksFromConfig builds from default_webhooks, each
\* with its own NewTPSCalculator()
loadWebhooksFromConfig(file) ==
  [i \in DOMAIN file |->
     [ID |-> file[i].ID, Name |-> file[i].Name, Path |-> file[i].Path,
      Config |-> [file[i].Config EXCEPT
                    !.Headers = IF @ = NilHeaders THEN <<>> ELSE @],
      Calculator |-> i, CreatedAt |-> 1, LastRequest |-> ZeroTime]]

\* NewWebhookServer when config.yaml was read: the webhooks of the file are
\* put into the map under their ids, the last of an id staying, and a route
\* is registered for the path of each
InitYaml ==
  \E file \in YamlFiles :
    /\ now = 1
    /\ heap = loadWebhooksFromConfig(file)
    /\ calcs = [c \in DOMAIN file |-> NewTPSCalculator]
    /\ mu = [c \in DOMAIN file |-> NewRWMutex]
    /\ webhooks = [id \in {file[i].ID : i \in DOMAIN file} |->
                     CHOOSE o \in DOMAIN file :
                       /\ file[o].ID = id
                       /\ \A q \in DOMAIN file : file[q].ID = id => q <= o]
    /\ wsmu = NewRWMutex
    /\ router = [p \in {file[i].Path : i \in DOMAIN file} |->
                   file[CHOOSE o \in DOMAIN file : file[o].Path = p].ID]
    /\ pc = [t \in Threads |-> "idle"]
    /\ frame = [t \in Threads |-> IdleFrame]
    /\ nops = 0
    /\ begun = [c \in DOMAIN file |-> 0]
    /\ completed = [c \in DOMAIN file |-> 0]
    /\ committed = [c \in DOMAIN file |-> NewTPSCalculator]
    /\ snapLo = [t \in Threads |-> 0]
    /\ recorded = [c \in DOMAIN file |-> 0]
    /\ served = [o \in DOMAIN file |-> 0]
    /\ posted = <<>>
    /\ deleted = {}

\* one goroutine serves the legacy operations: POST /api/request, GET
\* /api/metrics, POST /api/reset, GET and POST /api/config
NextYaml ==
  \/ Tick
  \/ StartLegacy(1, MaxOps)
  \/ Start(1, "api_config_get", "default", MaxOps)
  \/ StartConfig(1, MaxOps)
  \/ ConfigRead(1)
  \/ ConfigStep(1)
  \/ CalculatorStep(1)

SpecYaml == InitYaml /\ [][NextYaml]_vars

(* --------------------------- create, delete and the routes ------------- *)
\* one goroutine serves creates on no path or on /hook, deletes of the new
\* webhooks, and requests on /w/:id and on the registered paths (and metrics
\* and resets), one more of them than in the other sequential specifications
NextRoute ==
  \/ StartCreate(1, MaxOps + 1)
  \/ \E id \in NewIDs : Start(1, "delete", id, MaxOps + 1)
  \/ StartChecked(1, NewIDs, MaxOps + 1)
  \/ StartRoute(1, MaxOps + 1)
  \/ createWebhookOf(1, NewIDs, {<<>>, <<"hook">>}, CreateConfigs)
  \/ registerWebhookRoute(1)
  \/ deleteWebhook(1)
  \/ RequestStep(1)
  \/ CalculatorStep(1)

SpecRoute == Init /\ [][NextRoute]_vars

(* --------------------------- requests and a delete, concurrent --------- *)
\* a webhook "a1" is created on its default path, without or with a delay,
\* requested on /w/a1 and deleted by goroutines that run side by side, while
\* the clock advances
NextRace ==
  \/ Tick
  \/ \E t \in Threads :
       \/ StartCreate(t, MaxOps)
       \/ Start(t, "webhook", "a1", MaxOps)
       \/ Start(t, "delete", "a1", MaxOps)
       \/ createWebhookOf(t, {"a1"}, {<<>>}, CreateConfigs)
       \/ registerWebhookRoute(t)
       \/ deleteWebhook(t)
       \/ getWebhook(t)
       \/ getWebhookReturn(t)
       \/ RecordRequestLock(t)
       \/ RecordRequestStart(t)
       \/ RecordRequestActive(t)
       \/ RecordRequestLoad(t)
       \/ RecordRequestStore(t)
       \/ RecordRequestLast(t)
       \/ RequestStep(t)
       \/ Respond(t)

SpecRace == Init /\ [][NextRace]_vars

(* --------------------------- update and delete, concurrent ------------- *)
\* a webhook "a1" is created on its default path, updated with PUT and PATCH
\* and deleted, by goroutines that run side by side
NextDel ==
  \E t \in Threads :
    \/ StartCreate(t, MaxOps)
    \/ \E h \in {"put", "patch"} : StartBody(t, h, "a1", RegBody, MaxOps)
    \/ Start(t, "delete", "a1", MaxOps)
    \/ createWebhookOf(t, {"a1"}, {<<>>}, {DecodeConfig(RegBody.config)})
    \/ registerWebhookRoute(t)
    \/ deleteWebhook(t)
    \/ getWebhook(t)
    \/ getWebhookReturn(t)
    \/ UpdateLock(t)
    \/ UpdateMerge(t)
    \/ RespondLocked(t)
    \/ Respond(t)

SpecDel == Init /\ [][NextDel]_vars

(* ------------------------- the calculator's claims --------------------- *)
\* goroutines whose GetMetrics call has built the map it returns and has not
\* yet run its deferred RUnlock
Snapshots == {t \in Threads : pc[t] = "met_unlock"}

\* goroutines that read the fields of calculator c inside GetMetrics
Reading(c) ==
  {t \in Threads :
     /\ pc[t] \in {"met_active", "met_duration", "met_tps", "met_map",
                   "met_unlock"}
     /\ CalcOf(t) = c}

\* goroutines between the Lock and the Unlock of Reset on calculator c
Resetting(c) ==
  {t \in Threads :
     /\ pc[t] \in {"rst_count", "rst_start", "rst_last", "rst_active"}
     /\ CalcOf(t) = c}

\* goroutines between the Lock and the Unlock of RecordRequest on calculator c
Writing(c) == Recording(c) \ {t \in Threads : pc[t] = "rec_lock"}

\* what a snapshot of the fields a, taken at one instant, reports
MetricsOf(a) ==
  IF ~a.isActive
  THEN InactiveMetrics
  ELSE [total_requests |-> a.requestCount,
        duration_seconds |-> <<a.lastTime - a.startTime, TicksPerSecond>>,
        tps |-> IF a.lastTime > a.startTime
                THEN <<a.requestCount * TicksPerSecond, a.lastTime - a.startTime>>
                ELSE <<0, 1>>,
        start_time |-> <<a.startTime \div TicksPerSecond>>,
        end_time |-> <<a.lastTime \div TicksPerSecond>>]

\* C1: no lost updates. When every RecordRequest call entered on a calculator
\* had returned before a GetMetrics call began (N calls, in whatever
\* interleaving they ran), that GetMetrics reports total_requests = N.
C1_NoLostUpdates ==
  \A t \in Snapshots :
    snapLo[t] = begun[CalcOf(t)] =>
      frame[t].metrics.total_requests = begun[CalcOf(t)]

\* two RecordRequest calls have returned and a later GetMetrics reports them
C1_Witness ==
  \E t \in Snapshots :
    /\ snapLo[t] = begun[CalcOf(t)]
    /\ begun[CalcOf(t)] >= 2
    /\ frame[t].metrics.total_requests = begun[CalcOf(t)]

\* C2: a GetMetrics call reports at least the RecordRequest calls that had
\* returned (since the last Reset) when it began, and at most the calls
\* entered.
C2_Linearizable ==
  \A t \in Snapshots :
    /\ snapLo[t] <= frame[t].metrics.total_requests
    /\ frame[t].metrics.total_requests <= begun[CalcOf(t)]

\* a GetMetrics call that began before a RecordRequest returned and reports it
C2_Witness ==
  \E t \in Snapshots :
    /\ snapLo[t] < frame[t].metrics.total_requests
    /\ frame[t].metrics.total_requests = completed[CalcOf(t)]

\* C3: a reader never sees a half-applied RecordRequest: while a goroutine
\* reads the fields inside GetMetrics they are the fields as the last writer
\* left them at its Unlock, and the map returned is the snapshot of those.
C3_AtomicRecord ==
  \A t \in Threads : \A c \in DOMAIN calcs :
    /\ t \in Reading(c) => calcs[c] = committed[c]
    /\ (t \in Snapshots /\ CalcOf(t) = c) =>
         frame[t].metrics = MetricsOf(committed[c])

\* a GetMetrics call has its map while a RecordRequest call waits for the lock
C3_Witness ==
  \E t \in Snapshots : \E u \in Threads :
    /\ pc[u] = "rec_lock"
    /\ CalcOf(u) = CalcOf(t)
    /\ frame[t].metrics.total_requests >= 1

\* C4: Reset excludes RecordRequest and GetMetrics: while a Reset call is
\* between its Lock and its Unlock no other goroutine reads or writes the
\* fields, and no map returned mixes cleared and uncleared fields.
C4_AtomicReset ==
  /\ \A c \in DOMAIN calcs : \A t \in Resetting(c) :
       Reading(c) \cup Writing(c) \cup Resetting(c) = {t}
  /\ \A t \in Snapshots :
       LET m == frame[t].metrics
           a == committed[CalcOf(t)]
       IN \/ m = InactiveMetrics
          \/ /\ m.total_requests >= 1
             /\ m.total_requests = a.requestCount
             /\ m.start_time = <<a.startTime \div TicksPerSecond>>
             /\ m.end_time = <<a.lastTime \div TicksPerSecond>>

\* a Reset call is half done while a GetMetrics call waits for the lock, on a
\* calculator that has recorded
C4_Witness ==
  \E t, u \in Threads :
    /\ pc[t] = "rst_start"
    /\ pc[u] = "met_lock"
    /\ CalcOf(u) = CalcOf(t)
    /\ calcs[CalcOf(t)].isActive

\* C5: outside a writer's critical section, an inactive calculator has count 0
\* and both times unset, and an active one has count >= 1 and
\* startTime <= lastTime.
C5_Invariant ==
  \A c \in DOMAIN calcs :
    mu[c].w = 0 =>
      IF calcs[c].isActive
      THEN calcs[c].requestCount >= 1 /\ calcs[c].startTime <= calcs[c].lastTime
      ELSE /\ calcs[c].requestCount = 0
           /\ calcs[c].startTime = ZeroTime
           /\ calcs[c].lastTime = ZeroTime

\* an active calculator, outside any critical section, whose window has a
\* length
C5_Witness ==
  \E c \in DOMAIN calcs :
    /\ mu[c].w = 0
    /\ calcs[c].isActive
    /\ calcs[c].requestCount >= 2
    /\ calcs[c].startTime < calcs[c].lastTime

\* C6: n RecordRequest calls one after the other, then GetMetrics:
\* total_requests = n.
C6_Sequential ==
  \A t \in Snapshots :
    frame[t].metrics.total_requests = completed[CalcOf(t)]

\* two calls in sequence, then the snapshot
C6_Witness ==
  \E t \in Snapshots :
    /\ completed[CalcOf(t)] = 2
    /\ frame[t].metrics.total_requests = 2

\* C7: a calculator on which no RecordRequest was entered since it was made or
\* since its last Reset returned holds the fields of a new calculator, and
\* GetMetrics on it returns the all-zero map with both times absent.
C7_Fresh ==
  /\ \A c \in DOMAIN calcs :
       (begun[c] = 0 /\ mu[c].w = 0) => calcs[c] = NewTPSCalculator
  /\ \A t \in Snapshots :
       begun[CalcOf(t)] = 0 =>
         /\ frame[t].metrics.total_requests = 0
         /\ frame[t].metrics.duration_seconds[1] = 0
         /\ frame[t].metrics.tps[1] = 0
         /\ frame[t].metrics.start_time = Absent
         /\ frame[t].metrics.end_time = Absent

\* GetMetrics after a Reset of a calculator that had recorded
C7_Witness ==
  \E t \in Snapshots :
    /\ begun[CalcOf(t)] = 0
    /\ recorded[CalcOf(t)] >= 1

\* C8: the map of an active calculator has tps 0 when lastTime = startTime,
\* whatever the count, and tps = total_requests / duration_seconds otherwise.
C8_Rate ==
  \A t \in Snapshots :
    LET m == frame[t].metrics
        a == committed[CalcOf(t)]
    IN m.total_requests >= 1 =>
         /\ m.duration_seconds[1] = 0 <=> a.lastTime = a.startTime
         /\ m.duration_seconds[1] = 0 => m.tps[1] = 0 /\ m.tps[2] # 0
         /\ m.duration_seconds[1] > 0 =>
              /\ m.tps[2] # 0
              /\ m.tps[1] * m.duration_seconds[1] =
                   m.total_requests * m.duration_seconds[2] * m.tps[2]

\* two requests in the same clock tick: a window of length 0
C8_Witness ==
  \E t \in Snapshots :
    /\ frame[t].metrics.total_requests >= 2
    /\ frame[t].metrics.duration_seconds[1] = 0

\* a window with a length
C8_WitnessRate ==
  \E t \in Snapshots :
    /\ frame[t].metrics.total_requests >= 2
    /\ frame[t].metrics.duration_seconds[1] > 0

(* ------------------------- the server's claims ------------------------- *)
\* C9: each request that finds its webhook adds exactly one to that webhook's
\* count: GetMetrics through a webhook reports the number of requests served
\* through it since its last reset (0 right after a reset), and so does the
\* counter of every webhook when no request is being served.
C9_RequestsCounted ==
  /\ \A t \in Snapshots :
       frame[t].metrics.total_requests = served[frame[t].webhook]
  /\ (\A t \in Threads : pc[t] = "idle") =>
       \A o \in DOMAIN heap :
         calcs[heap[o].Calculator].requestCount = served[o]

\* the metrics of a created webhook after a request to it
C9_Witness ==
  \E t \in Snapshots :
    /\ heap[frame[t].webhook].ID \in NewIDs
    /\ frame[t].handler = "metrics"
    /\ frame[t].metrics.total_requests >= 1
    /\ frame[t].metrics.total_requests = served[frame[t].webhook]

\* C10: a step changes the calculator of a webhook only when it is a step of
\* a goroutine that serves a request naming that webhook's id and has found
\* that webhook; the calculators of all other webhooks stay as they are.
C10_SeparateCounters ==
  [][\A o \in DOMAIN heap :
       calcs'[heap[o].Calculator] # calcs[heap[o].Calculator] =>
         \E t \in Threads :
           /\ pc'[t] # pc[t]
           /\ frame[t].webhook = o
           /\ frame[t].id = heap[o].ID
           /\ frame[t].handler \in {"webhook", "reset", "api_request",
                                    "api_reset"}]_vars

\* one webhook keeps its count while another, which had recorded too, has
\* been reset
C10_Witness ==
  \E o1, o2 \in DOMAIN heap :
    /\ o1 # o2
    /\ calcs[heap[o1].Calculator].requestCount >= 1
    /\ recorded[heap[o2].Calculator] >= 1
    /\ calcs[heap[o2].Calculator] = NewTPSCalculator
    /\ \A t \in Threads : pc[t] = "idle"

(* ------------------------- the registry's claims ----------------------- *)
\* goroutines whose PUT, PATCH or bulk update has written its fields and is
\* about to answer 200
Updated ==
  {t \in Threads :
     /\ pc[t] = "respond_locked"
     /\ frame[t].handler \in {"put", "patch", "bulk"}
     /\ frame[t].status = 200}

\* the config field each JSON key names
FieldOf ==
  [status_code |-> "StatusCode", content_type |-> "ContentType",
   response_body |-> "ResponseBody", timeout |-> "Timeout",
   headers |-> "Headers", enable_logging |-> "EnableLogging"]

\* the config keys that the update served by t supplies for webhook o
SuppliedConfig(t, o) ==
  LET b == frame[t].body
  IN IF frame[t].handler = "bulk"
     THEN UNION {DOMAIN Field(b.updates[id], "config", <<>>) :
                   id \in {i \in DOMAIN b.updates \cap DOMAIN webhooks :
                             webhooks[i] = o}}
     ELSE IF o = frame[t].webhook
          THEN DOMAIN Field(b, "config", <<>>)
          ELSE {}

\* the goroutine holds ws.mu, as the writer or as a reader
HoldsRegistry(t) == wsmu.w = t \/ t \in wsmu.r

\* the goroutine holds the mutex of a calculator
HoldsCalculator(t) == \E c \in DOMAIN mu : mu[c].w = t \/ t \in mu[c].r

\* handleWebhookRequest from the call of RecordRequest to the response
HotPath ==
  {"rec_lock", "rec_start", "rec_active", "rec_load", "rec_store", "rec_last",
   "hw_now", "hw_last", "hw_timeout", "hw_sleep", "hw_write"}

\* where a goroutine is about to take ws.mu
RegistryLockPoints ==
  {"get", "sum_all", "create", "delete", "upd_lock", "bulk_lock", "cfg_lock"}

\* C11: a goroutine in handleWebhookRequest holds ws.mu neither while
\* RecordRequest runs nor while it sleeps nor at any point after the lookup;
\* so a PUT that waits for ws.mu.Lock() can take it whenever the other
\* goroutines are idle or in that part of handleWebhookRequest, asleep or not.
C11_HotPathUnlocked ==
  /\ \A t \in Threads :
       (frame[t].handler = "webhook" /\ pc[t] \in HotPath) => ~HoldsRegistry(t)
  /\ \A u \in Threads :
       (/\ pc[u] = "upd_lock"
        /\ \A v \in Threads \ {u} :
             \/ pc[v] = "idle"
             \/ frame[v].handler = "webhook" /\ pc[v] \in HotPath)
         => ENABLED UpdateLock(u)

\* a request to "slow" is asleep while a PUT holds ws.mu and writes
C11_Witness ==
  \E t, u \in Threads :
    /\ pc[t] = "hw_sleep"
    /\ pc[u] = "upd_merge"
    /\ wsmu.w = u

\* what the goroutine is about to do to the fields of the webhooks:
\* <<webhook, field, "read" or "write">>
Access(t) ==
  LET o == frame[t].webhook
      b == frame[t].body
      all == {"Name", "Path", "Config", "LastRequest"}
  IN CASE pc[t] = "hw_last" -> {<<o, "LastRequest", "write">>}
       [] pc[t] \in {"hw_timeout", "hw_write"} -> {<<o, "Config", "read">>}
       [] pc[t] = "sum_entry" ->
            {<<o, f, "read">> : f \in {"Name", "Path", "Config"}}
       [] pc[t] = "upd_merge" ->
            {<<o, f, "write">> :
               f \in {g \in all :
                        \/ g = "Config"
                             /\ (frame[t].handler = "put" \/ Has(b, "config"))
                        \/ g = "Name" /\ Has(b, "name")
                        \/ g = "Path" /\ Has(b, "path")
                             /\ frame[t].id \notin ProtectedIDs}}
       [] pc[t] = "bulk_apply" ->
            {<<webhooks[id], "Config", "write">> :
               id \in {i \in DOMAIN b.updates \cap DOMAIN webhooks :
                         DecodeBulk(b.updates[i]).Config.StatusCode # 0}}
       [] pc[t] = "cfg_write" -> {<<o, "Config", "write">>}
       [] pc[t] = "respond" /\ frame[t].handler \in {"show", "create"}
            /\ frame[t].status \in {200, 201} ->
            {<<o, f, "read">> : f \in all}
       [] pc[t] = "respond_locked" /\ frame[t].handler \in {"put", "patch"}
            /\ frame[t].status = 200 ->
            {<<o, f, "read">> : f \in all}
       [] OTHER -> {}

\* every write of LastRequest and every read or write of Name, Path and
\* Config is made by a goroutine that holds ws.mu
C12_AccessUnderLock ==
  \A t \in Threads : \A a \in Access(t) :
    (a[2] # "LastRequest" \/ a[3] = "write") => HoldsRegistry(t)

\* no two goroutines are about to access the same field of the same webhook,
\* one of them writing, unless both hold ws.mu
C12_NoRace ==
  \A t, u \in Threads : \A a \in Access(t) : \A b \in Access(u) :
    (t # u /\ a[1] = b[1] /\ a[2] = b[2] /\ "write" \in {a[3], b[3]})
      => HoldsRegistry(t) /\ HoldsRegistry(u)

\* C12: all access to a webhook's fields goes through ws.mu: every write of
\* LastRequest and every read or write of Name, Path and Config is made with
\* ws.mu held, and so no two goroutines access one field at the same time,
\* one of them writing, without the lock.
C12_LockMediated == C12_AccessUnderLock /\ C12_NoRace

\* C13: a goroutine about to take ws.mu holds no calculator's mutex; and
\* while a handler is running, some handler can take a step.
C13_LockOrder ==
  /\ \A t \in Threads :
       pc[t] \in RegistryLockPoints => ~HoldsCalculator(t)
  /\ (\E t \in Threads : pc[t] # "idle") =>
       \E t \in Threads : ENABLED HandlerStep(t)

\* one goroutine is inside RecordRequest, with the calculator locked, while
\* another holds ws.mu for a write
C13_Witness ==
  \E t, u \in Threads :
    /\ pc[t] = "rec_store"
    /\ mu[CalcOf(t)].w = t
    /\ wsmu.w = u
    /\ pc[u] \in {"upd_merge", "bulk_apply", "cfg_write", "create_route"}

\* C14: a goroutine that sleeps, writes a response or registers a route holds
\* neither ws.mu nor a calculator's mutex.
C14_NoLockAcrossIO ==
  \A t \in Threads :
    pc[t] \in {"hw_sleep", "hw_write", "respond", "respond_locked",
               "create_route"}
      => ~HoldsRegistry(t) /\ ~HoldsCalculator(t)

\* C15: deleteWebhook of "default", "fast" or "slow" returns false (the
\* handler answers 404) and leaves the map and every webhook as they were.
C15_DeleteProtected ==
  [][\A t \in Threads :
       (pc[t] = "delete" /\ pc'[t] # "delete" /\ frame[t].id \in ProtectedIDs)
         => /\ frame'[t].status = 404
            /\ webhooks' = webhooks
            /\ heap' = heap]_vars

\* a DELETE of a built-in webhook has been refused
C15_Witness ==
  \E t \in Threads :
    /\ pc[t] = "respond"
    /\ frame[t].handler = "delete"
    /\ frame[t].id \in ProtectedIDs
    /\ frame[t].status = 404
    /\ frame[t].id \in DOMAIN webhooks

\* C16: deleteWebhook of any other id returns true (200) exactly when the id
\* is in the map, and then takes that id out of the map and nothing else;
\* for an id not in the map it returns false (404) and the map stays.  An id
\* that is not in the map is answered 404 by GET /api/webhooks/:id.
C16_Delete ==
  [][\A t \in Threads :
       /\ (pc[t] = "delete" /\ pc'[t] # "delete"
             /\ frame[t].id \notin ProtectedIDs)
            => /\ heap' = heap
               /\ IF frame[t].id \in DOMAIN webhooks
                  THEN /\ frame'[t].status = 200
                       /\ DOMAIN webhooks' = DOMAIN webhooks \ {frame[t].id}
                       /\ \A i \in DOMAIN webhooks' : webhooks'[i] = webhooks[i]
                  ELSE /\ frame'[t].status = 404
                       /\ webhooks' = webhooks
       /\ (pc[t] = "get_ret" /\ pc'[t] # "get_ret" /\ frame[t].handler = "show"
             /\ frame[t].id \notin DOMAIN webhooks)
            => frame'[t].status = 404]_vars

\* a webhook was created and deleted, and GET of its id is answered 404
C16_Witness ==
  \E t \in Threads : \E o \in DOMAIN heap :
    /\ pc[t] = "respond"
    /\ frame[t].handler = "show"
    /\ frame[t].status = 404
    /\ heap[o].ID = frame[t].id
    /\ frame[t].id \notin DOMAIN webhooks

\* C17: an update (PUT, PATCH, bulk) leaves every config field that its body
\* does not supply as it was.
C17_FieldMerge ==
  \A t \in Updated : \A o \in DOMAIN frame[t].before :
    \A k \in DOMAIN FieldOf \ SuppliedConfig(t, o) :
      heap[o].Config[FieldOf[k]] = frame[t].before[o].Config[FieldOf[k]]

\* C18: in PUT and PATCH a numeric field supplied, be it as 0, is stored, and
\* a numeric field not supplied leaves the stored value.
C18_ZeroIsSupplied ==
  \A t \in Updated :
    frame[t].handler \in {"put", "patch"} =>
      LET o == frame[t].webhook
          cfg == Field(frame[t].body, "config", <<>>)
      IN \A k \in {"status_code", "timeout"} :
           heap[o].Config[FieldOf[k]] =
             IF Has(cfg, k) THEN cfg[k]
             ELSE frame[t].before[o].Config[FieldOf[k]]

\* C19: a PUT or PATCH that supplies a path for "default", "fast" or "slow"
\* is refused (not answered 200) and leaves the webhook as it was.
C19_ProtectedPathRejected ==
  \A t \in Threads :
    (/\ pc[t] = "respond_locked"
     /\ frame[t].handler \in {"put", "patch"}
     /\ frame[t].id \in ProtectedIDs
     /\ Has(frame[t].body, "path"))
      => /\ frame[t].status # 200
         /\ heap[frame[t].webhook] = frame[t].before[frame[t].webhook]

\* C20: "default", "fast" and "slow" stay in the map, each the webhook it was
\* at startup, with the path it had at startup.
C20_ProtectedPermanent ==
  \A o \in DOMAIN loadDefaultWebhooks :
    LET id == loadDefaultWebhooks[o].ID
    IN /\ id \in DOMAIN webhooks
       /\ webhooks[id] = o
       /\ heap[o].ID = id
       /\ heap[o].Path = loadDefaultWebhooks[o].Path

\* a PUT that asks for a new path of "slow" has been answered 200, after an
\* earlier operation
C20_Witness ==
  \E t \in Threads :
    /\ pc[t] = "respond_locked"
    /\ frame[t].handler = "put"
    /\ frame[t].id = "slow"
    /\ Has(frame[t].body, "path")
    /\ frame[t].status = 200
    /\ nops >= 2

(* ------------------------- the claims of Create ------------------------ *)
\* goroutines whose POST /api/webhooks has built and stored its webhook
Created ==
  {t \in Threads :
     frame[t].handler = "create" /\ pc[t] \in {"create_route", "respond"}}

\* C21: the path createWebhook stores is "/w/" and the webhook's own id when
\* the request has no path, "/" and the path asked for when that path has no
\* leading "/", and the path asked for as it is when it has one.
C21_StoredPath ==
  \A t \in Created :
    LET webhook == heap[frame[t].webhook]
        path == frame[t].body.path
    IN /\ path = <<>> => webhook.Path = <<"/", "w", "/", webhook.ID>>
       /\ (path # <<>> /\ Head(path) # "/") => webhook.Path = <<"/">> \o path
       /\ (path # <<>> /\ Head(path) = "/") => webhook.Path = path

\* a webhook asked for on "hook" is stored on "/hook", beside one that was
\* created with no path and another that is stored on "/hook"
C21_Witness ==
  \E t \in Created : \E o1, o2 \in DOMAIN heap :
    /\ frame[t].body.path = <<"hook">>
    /\ heap[frame[t].webhook].Path = <<"/", "hook">>
    /\ heap[o1].Path = <<"/", "w", "/", heap[o1].ID>>
    /\ heap[o2].Path = <<"/", "hook">>
    /\ o2 # frame[t].webhook

\* the webhooks that are in the map
Registered == {webhooks[i] : i \in DOMAIN webhooks}

\* C22: when createWebhook has returned, the webhook it built is in the map
\* only if no other webhook in the map has its path; a request for a path
\* that another webhook in the map has is not answered 201.
C22_DuplicatePath ==
  \A t \in Created :
    pc[t] = "respond" =>
      LET o == frame[t].webhook
          clash == \E p \in Registered \ {o} : heap[p].Path = heap[o].Path
      IN /\ o \in Registered => ~clash
         /\ clash => frame[t].status # 201

\* C23: createWebhook stores under an id that is not a key of the map: the
\* map gains one key, and every key it had keeps its webhook.
C23_NoReplace ==
  [][\A t \in Threads :
       (pc[t] = "create" /\ pc'[t] = "create_route") =>
         /\ heap'[frame'[t].webhook].ID \notin DOMAIN webhooks
         /\ Cardinality(DOMAIN webhooks') = Cardinality(DOMAIN webhooks) + 1
         /\ \A i \in DOMAIN webhooks :
              i \in DOMAIN webhooks' /\ webhooks'[i] = webhooks[i]]_vars

\* a POST /api/webhooks that is answered 500 leaves its webhook out of the map
C24_CreateAllOrNothing ==
  \A t \in Created :
    (pc[t] = "respond" /\ frame[t].status = 500) =>
      frame[t].webhook \notin Registered

\* a bulk update that names an id the map does not have changes no webhook
C24_BulkAllOrNothing ==
  \A t \in Threads :
    (/\ pc[t] = "respond_locked"
     /\ frame[t].handler = "bulk"
     /\ \E i \in DOMAIN frame[t].body.updates : i \notin DOMAIN webhooks)
      => heap = frame[t].before

\* C24: an operation on the registry that ends in an error leaves the
\* registry as it was: a POST /api/webhooks whose route registration fails
\* leaves no new webhook in the map, and a bulk update is not applied to
\* some of its ids when it fails for others.
C24_AllOrNothing == C24_CreateAllOrNothing /\ C24_BulkAllOrNothing

(* ------------------------- the claims of the lookups ------------------- *)
\* C25: a request whose id names no webhook in the map is answered 404, and
\* from the lookup to the response its handler changes no calculator, no
\* webhook (so no LastRequest) and no count of requests served.
C25_NotFound ==
  [][\A t \in Threads :
       (/\ frame[t].handler = "webhook"
        /\ frame[t].webhook = NilWebhook
        /\ pc[t] \in {"get_ret", "respond"}
        /\ pc'[t] # pc[t])
         => /\ pc[t] = "get_ret" =>
                 pc'[t] = "respond" /\ frame'[t].status = 404
            /\ pc[t] = "respond" => pc'[t] = "idle" /\ frame[t].status = 404
            /\ calcs' = calcs
            /\ heap' = heap
            /\ webhooks' = webhooks
            /\ recorded' = recorded
            /\ served' = served]_vars

\* a request to a webhook that was created and then deleted is answered 404
C25_Witness ==
  \E t \in Threads : \E o \in DOMAIN heap :
    /\ pc[t] = "respond"
    /\ frame[t].handler = "webhook"
    /\ frame[t].status = 404
    /\ heap[o].ID = frame[t].id
    /\ frame[t].id \notin DOMAIN webhooks

C27_BuiltIn ==
  nops = 0 =>
    /\ DOMAIN webhooks = {"default", "fast", "slow"}
    /\ \A id \in DOMAIN webhooks : heap[webhooks[id]].ID = id
    /\ heap[webhooks["default"]].Config.EnableLogging
    /\ heap[webhooks["default"]].Config.Timeout = 0
    /\ ~heap[webhooks["fast"]].Config.EnableLogging
    /\ heap[webhooks["fast"]].Config.Timeout = 0
    /\ heap[webhooks["slow"]].Config.EnableLogging
    /\ heap[webhooks["slow"]].Config.Timeout > 0
    /\ \A i, j \in DOMAIN webhooks :
         i # j => heap[webhooks[i]].Calculator # heap[webhooks[j]].Calculator
    /\ \A i \in DOMAIN webhooks :
         LET c == calcs[heap[webhooks[i]].Calculator]
         IN ~c.isActive /\ c.requestCount = 0

\* the server as NewWebhookServer leaves it, with no request served yet
C27_Witness ==
  /\ nops = 0
  /\ Cardinality(DOMAIN webhooks) = 3
  /\ Cardinality({heap[webhooks[i]].Calculator : i \in DOMAIN webhooks}) = 3
  /\ \A t \in Threads : pc[t] = "idle"

\* C28: when PUT or PATCH gives a new path to a webhook that is not built
\* in, the path is stored with a leading "/" and the routes stay as they
\* are: the routes of the webhook still lead to its id and to it, and the
\* new path has no route.
C28_PathStoredOnly ==
  [][\A t \in Threads :
       (/\ pc[t] = "upd_merge"
        /\ pc'[t] = "respond_locked"
        /\ frame[t].id \notin ProtectedIDs
        /\ Has(frame[t].body, "path"))
         => LET o == frame[t].webhook
                path == frame[t].body.path
            IN /\ heap'[o].Path =
                    IF Head(path) = "/" THEN path ELSE <<"/">> \o path
               /\ \A q \in DOMAIN heap \ {o} : heap'[q] = heap[q]
               /\ webhooks' = webhooks
               /\ router' = router
               /\ heap'[o].Path \notin DOMAIN router'
               /\ \A p \in DOMAIN router :
                    router[p] = frame[t].id =>
                      /\ router'[p] = frame[t].id
                      /\ webhooks'[frame[t].id] = o]_vars

\* a webhook was created on "/hook" and moved to "/moved" by a PUT; a request
\* on "/hook" has reached it and was recorded by its calculator
C28_Witness ==
  \E t \in Threads :
    /\ pc[t] = "respond"
    /\ frame[t].handler = "webhook"
    /\ Has(frame[t].body, "route")
    /\ frame[t].body.route = <<"/", "hook">>
    /\ frame[t].webhook # NilWebhook
    /\ heap[frame[t].webhook].Path = <<"/", "moved">>
    /\ calcs[CalcOf(t)].requestCount = 1
    /\ served[frame[t].webhook] = 1

(* ------------------------- the claims of the configs ------------------- *)
\* what POST /api/config has stored is the config of "default"; GET
\* /api/config answers 200 with a JSON object that decodes to it; a request
\* to "default" sleeps its Timeout when that is positive and is answered
\* with its StatusCode, its ResponseBody, its Headers and its ContentType
C29_RoundTrip ==
  posted # <<>> =>
    /\ heap[webhooks["default"]].Config = posted
    /\ \A t \in Threads :
         (pc[t] = "respond" /\ frame[t].webhook = webhooks["default"]) =>
           /\ frame[t].handler = "api_config_get" =>
                /\ frame[t].status = 200
                /\ DecodeConfig(frame[t].response) = posted
           /\ frame[t].handler = "webhook" =>
                LET r == frame[t].response
                    sent == {r.headers[i] : i \in DOMAIN r.headers}
                IN /\ r.status = posted.StatusCode
                   /\ r.body = posted.ResponseBody
                   /\ r.delay = IF posted.Timeout > 0 THEN posted.Timeout ELSE 0
                   /\ <<"Content-Type", posted.ContentType>> \in sent
                   /\ posted.Headers # NilHeaders =>
                        \A i \in DOMAIN posted.Headers :
                          posted.Headers[i][1] # "Content-Type" =>
                            posted.Headers[i] \in sent

\* C29: POST /api/config stores the config it decoded as the config of
\* "default" and changes nothing else: no other webhook, no calculator, no
\* route; afterwards GET /api/config returns that config and requests to
\* "default" are answered with its status, body, headers and delay.
C29_LegacyConfig ==
  [][/\ \A t \in Threads :
          (pc[t] = "cfg_write" /\ pc'[t] = "respond") =>
            /\ frame'[t].status = 200
            /\ heap' = [heap EXCEPT ![webhooks["default"]].Config =
                                      DecodeConfig(frame[t].body)]
            /\ calcs' = calcs
            /\ webhooks' = webhooks
            /\ router' = router
            /\ served' = served
     /\ C29_RoundTrip']_vars

\* after a POST /api/config with the README's config, a request to "default"
\* has slept 500 ms and has its response: 201, "created", the header; and the
\* calculator of "default" has counted it
C29_Witness ==
  \E t \in Threads :
    /\ posted = DecodeConfig(ReadmeConfig)
    /\ pc[t] = "respond"
    /\ frame[t].handler = "webhook"
    /\ frame[t].webhook = webhooks["default"]
    /\ frame[t].response.status = 201
    /\ frame[t].response.body = "created"
    /\ frame[t].response.delay = 500
    /\ <<"X-Request-ID", "abc123">> \in
         {frame[t].response.headers[i] : i \in DOMAIN frame[t].response.headers}
    /\ calcs[CalcOf(t)].requestCount = 1

\* after a POST /api/config, GET /api/config has the config to return
C29_WitnessGet ==
  \E t \in Threads :
    /\ posted # <<>>
    /\ pc[t] = "respond"
    /\ frame[t].handler = "api_config_get"
    /\ DecodeConfig(frame[t].response) = posted

\* C30: every webhook in the map has a Timeout that is not negative and a
\* StatusCode that is an HTTP status code, 100 to 599.
C30_ConfigValid ==
  \A id \in DOMAIN webhooks :
    LET cfg == heap[webhooks[id]].Config
    IN cfg.Timeout >= 0 /\ cfg.StatusCode \in 100..599

(* ------------------------ claims: counters and windows ----------------- *)
\* C31: a calculator's requestCount never goes down except by the step of
\* Reset that sets it to 0: no other step of any handler (a request that is
\* delayed or answered, an update or a deletion of the webhook, a creation)
\* takes a recorded request back.
C31_CountMonotone ==
  [][\A c \in DOMAIN calcs :
       calcs'[c].requestCount < calcs[c].requestCount =>
         \E t \in Threads : /\ pc[t] = "rst_count"
                            /\ pc'[t] = "rst_start"
                            /\ CalcOf(t) = c]_vars

\* a request on "slow" is in its delay with its event counted while a PUT of
\* "slow" has written the new config
C31_Witness ==
  \E t, u \in Threads :
    /\ pc[t] = "hw_sleep"
    /\ calcs[CalcOf(t)].requestCount = 1
    /\ pc[u] = "respond_locked"
    /\ frame[u].handler = "put"
    /\ frame[u].status = 200
    /\ frame[u].webhook = frame[t].webhook

\* C32: startTime is written only by the first RecordRequest on an inactive
\* calculator, which sets it to the time that call read, and by Reset.  A
\* RecordRequest that returns on a calculator that was active when it took
\* the lock has changed requestCount (by one) and lastTime (to its time) and
\* nothing else; one that returns on a calculator that was inactive (new, or
\* reset) leaves it active with requestCount 1 and startTime = lastTime = its
\* time.
C32_Window ==
  [][/\ \A c \in DOMAIN calcs :
          calcs'[c].startTime # calcs[c].startTime =>
            \E t \in Threads :
              /\ pc[t] \in {"rec_start", "rst_start"}
              /\ CalcOf(t) = c
              /\ pc[t] = "rec_start" =>
                   /\ ~calcs[c].isActive
                   /\ calcs'[c].startTime = frame[t].now
     /\ \A t \in Threads :
          pc[t] = "rec_last" /\ pc'[t] # "rec_last" =>
            LET c == CalcOf(t)
            IN calcs'[c] =
                 IF committed[c].isActive
                 THEN [committed[c] EXCEPT !.requestCount = @ + 1,
                                           !.lastTime = frame[t].now]
                 ELSE [requestCount |-> 1, startTime |-> frame[t].now,
                       lastTime |-> frame[t].now, isActive |-> TRUE]]_vars

\* a second window: after a request and a Reset, a request at a later time
\* has returned, and the calculator holds that time and one request
C32_Witness ==
  \E c \in DOMAIN calcs :
    /\ recorded[c] = 2
    /\ mu[c].w = 0
    /\ calcs[c] = [requestCount |-> 1, startTime |-> 2, lastTime |-> 2,
                   isActive |-> TRUE]

\* one window: the second request came at a later time than the first and
\* startTime is still the time of the first
C32_WitnessLater ==
  \E c \in DOMAIN calcs :
    /\ mu[c].w = 0
    /\ calcs[c] = [requestCount |-> 2, startTime |-> 1, lastTime |-> 2,
                   isActive |-> TRUE]

(* ------------------------ claims: the list ----------------------------- *)
\* C33: when getAllWebhooks is about to return, the webhooks it has copied
\* are the webhooks in the map at that moment, it holds ws.mu for reading, and
\* no goroutine is inside a create, an update or a delete (none holds ws.mu
\* for writing, none is between the insertion into the map and the
\* registration of the route): the copy is the map at one instant of the call.
C33_ListSnapshot ==
  \A t \in Threads :
    pc[t] = "sum_all_ret" =>
      /\ t \in wsmu.r
      /\ wsmu.w = 0
      /\ frame[t].todo = {webhooks[id] : id \in DOMAIN webhooks}
      /\ \A u \in Threads :
           pc[u] \notin {"create_route", "upd_merge", "bulk_apply",
                         "cfg_write", "respond_locked"}

\* the list has copied the three webhooks of the map and still holds ws.mu,
\* while a create waits for it
C33_Witness ==
  \E t, u \in Threads :
    /\ pc[t] = "sum_all_ret"
    /\ t \in wsmu.r
    /\ pc[u] = "create"
    /\ Cardinality(frame[t].todo) = 3

\* the list has copied the map with the webhook that a create, now answered,
\* put into it
C33_WitnessCreated ==
  \E t, u \in Threads :
    /\ pc[t] = "sum_all_ret"
    /\ pc[u] = "respond"
    /\ frame[u].handler = "create"
    /\ frame[u].webhook \in frame[t].todo

(* ------------------------ claims: progress ----------------------------- *)
\* the points of a goroutine inside RecordRequest, GetMetrics or Reset
CalculatorPoints ==
  {"rec_lock", "rec_start", "rec_active", "rec_load", "rec_store", "rec_last",
   "met_lock", "met_active", "met_duration", "met_tps", "met_map",
   "met_unlock", "rst_lock", "rst_count", "rst_start", "rst_last",
   "rst_active"}

\* C34: under the scheduler's fairness, a goroutine that has called
\* RecordRequest, GetMetrics or Reset and waits for the calculator's mutex
\* eventually is out of the call and holds the mutex no more, whatever the
\* other goroutines do in the calculators and in the registry.
C34_CallsComplete ==
  \A t \in Threads :
    (pc[t] \in {"rec_lock", "met_lock", "rst_lock"})
      ~> (pc[t] \notin CalculatorPoints /\ ~HoldsCalculator(t))

\* a RecordRequest waits for the mutex that a Reset of the same calculator
\* holds
C34_Witness ==
  \E t, u \in Threads :
    /\ pc[t] = "rec_lock"
    /\ pc[u] \in {"rst_count", "rst_start", "rst_last", "rst_active"}
    /\ CalcOf(t) = CalcOf(u)
    /\ mu[CalcOf(t)].w = u

(* ------------------------ claims: requests and updates ----------------- *)
\* the response handleWebhookRequest gives under the config cfg
ResponseOf(cfg) ==
  [delay |-> IF cfg.Timeout > 0 THEN cfg.Timeout ELSE 0,
   status |-> cfg.StatusCode,
   body |-> cfg.ResponseBody,
   headers |-> MergeHeaders(cfg.Headers,
                 << <<"Content-Type", cfg.ContentType>> >>)]

\* C35: the response of a request on a webhook (its delay, headers, content
\* type, status and body) is the response under the webhook's config as it
\* was at one of the moments the handler read it.
C35_SingleVersion ==
  \A t \in Threads :
    (pc[t] = "respond" /\ frame[t].handler = "webhook"
       /\ frame[t].webhook # NilWebhook) =>
      \E i \in DOMAIN frame[t].versions :
        frame[t].response = ResponseOf(frame[t].versions[i])

\* C36: a request on /w/:id or on a registered path, served after a DELETE
\* of a webhook with its id was answered 200, finds no webhook, never enters
\* RecordRequest, and is answered 404.
C36_DeletedNotFound ==
  \A t \in Threads :
    (frame[t].handler = "webhook"
       /\ \E o \in deleted : heap[o].ID = frame[t].id) =>
      /\ pc[t] \notin HotPath
      /\ pc[t] = "get_ret" => frame[t].webhook = NilWebhook
      /\ pc[t] = "respond" => frame[t].status = 404

\* the same, for as long as no webhook is in the map under the id again
C36_UntilRecreated ==
  \A t \in Threads :
    (frame[t].handler = "webhook"
       /\ (\E o \in deleted : heap[o].ID = frame[t].id)
       /\ frame[t].id \notin DOMAIN webhooks) =>
      /\ pc[t] \notin HotPath
      /\ pc[t] = "get_ret" => frame[t].webhook = NilWebhook
      /\ pc[t] = "respond" => frame[t].status = 404

\* a request on the path of a deleted webhook, still registered, is answered
\* 404
C36_WitnessRoute ==
  /\ pc[1] = "respond"
  /\ frame[1].handler = "webhook"
  /\ "route" \in DOMAIN frame[1].body
  /\ \E o \in deleted : heap[o].ID = frame[1].id
  /\ frame[1].status = 404

\* C37: a goroutine of handleWebhookRequest that is inside RecordRequest
\* records on a webhook that deleteWebhook has not removed from the map: a
\* request that runs beside a DELETE of its webhook either found nothing, or
\* is through with RecordRequest before the webhook leaves the map.
C37_RecordedInRegistry ==
  \A t \in Threads :
    (frame[t].handler = "webhook"
       /\ pc[t] \in {"rec_start", "rec_active", "rec_load", "rec_store",
                     "rec_last"}) =>
      frame[t].webhook \notin deleted

(* ------------------------ claims: the legacy operations ---------------- *)
\* C38: while a legacy handler (GET and POST /api/config, POST /api/request,
\* GET /api/metrics, POST /api/reset) serves a request, "default" is in the
\* map, and the handler's getWebhook("default") returns a webhook.
C38_DefaultPresent ==
  \A t \in Threads :
    frame[t].handler \in LegacyHandlers \cup ConfigHandlers
                           \cup {"api_config"} =>
      /\ "default" \in DOMAIN webhooks
      /\ pc[t] = "get_ret" => frame[t].webhook # NilWebhook

\* with the built-in webhooks, or a config.yaml that lists "default", the
\* legacy handlers find their webhook
C38_BuiltIn ==
  "default" \in DOMAIN webhooks =>
    \A t \in Threads :
      (pc[t] = "get_ret"
         /\ frame[t].handler \in LegacyHandlers \cup ConfigHandlers
                                  \cup {"api_config"}) =>
        frame[t].webhook # NilWebhook

\* no request that is over has left webhookServer.mu locked (POST /api/config
\* does, when it panics on the missing webhook before its Unlock)
C38_NoLockLeft ==
  wsmu.w # 0 => pc[wsmu.w] # "idle"

(* ------------------------ claims: what an update leaves alone ---------- *)
\* C39: no step of a PUT, PATCH, bulk update or POST /api/config changes the
\* map, the ID, CreatedAt or Calculator of any webhook, or any field of any
\* calculator; and every webhook in the map has the id it is stored under.
C39_IdentityKept ==
  [][(\E t \in Threads :
        frame[t].handler \in {"put", "patch", "bulk", "api_config"}) =>
       /\ webhooks' = webhooks
       /\ DOMAIN heap' = DOMAIN heap
       /\ \A o \in DOMAIN heap :
            /\ heap'[o].ID = heap[o].ID
            /\ heap'[o].CreatedAt = heap[o].CreatedAt
            /\ heap'[o].Calculator = heap[o].Calculator
       /\ calcs' = calcs
       /\ \A id \in DOMAIN webhooks' : heap'[webhooks'[id]].ID = id]_vars

\* a PUT has written a new config into a webhook whose calculator has
\* counted a request
C39_Witness ==
  /\ pc[1] = "respond_locked"
  /\ frame[1].handler = "put"
  /\ frame[1].status = 200
  /\ heap[frame[1].webhook].Config # frame[1].before[frame[1].webhook].Config
  /\ calcs[CalcOf(1)].isActive
  /\ calcs[CalcOf(1)].requestCount = 1

(* ------------------------ claims: the time of the last request --------- *)
\* C40: no step sets a webhook's LastRequest to an earlier time than it held;
\* and when no request is being served, LastRequest is not earlier than the
\* lastTime of the webhook's calculator.
C40_LastRequestForward ==
  [][/\ \A o \in DOMAIN heap : heap'[o].LastRequest >= heap[o].LastRequest
     /\ (\A t \in Threads : pc'[t] = "idle") =>
          \A o \in DOMAIN heap' :
            heap'[o].LastRequest >= calcs'[heap'[o].Calculator].lastTime]_vars

\* the second half alone: with every request answered, LastRequest is not
\* earlier than the calculator's lastTime
C40_NotBeforeLastTime ==
  (\A t \in Threads : pc[t] = "idle") =>
    \A o \in DOMAIN heap :
      heap[o].LastRequest >= calcs[heap[o].Calculator].lastTime

====
